---- MODULE Spec2Model ----
(***************************************************************************)
(* Airport resource simulation (runways, gates, tower slots).              *)
(* Part I models src/So-final.c: the atomic reservation gate, the priority *)
(* arbiter, the three phases of an aircraft worker, the monitor thread and *)
(* main's creation / shutdown sequence.                                    *)
(* Threads may be delayed for any length of time between two steps, so     *)
(* every elapsed time the code computes (time(NULL) - timestamp) is an     *)
(* input of the step that reads it, drawn from one value per interval the  *)
(* code distinguishes.                                                     *)
(* Steps of one thread that only release (sem_post, liberar_reserva,       *)
(* liberar_prioridade, the record update at the end of a phase) follow     *)
(* each other in one action: no other thread can be disabled by them.      *)
(* Part II models src/So_restrito.c: the incremental acquisition with      *)
(* rollback and the release order of each phase.                           *)
(***************************************************************************)
EXTENDS Integers, FiniteSets, Sequences, TLC

\* ---- bounds of the model
MaxAvioes == 2
N_PISTAS == 1
N_PORTOES == 1
N_TORRES == 1

\* ---- program constants
LIMITE_DEADLOCK == 30
ALERTA_CRITICO_SECS == 60
TEMPO_MAXIMO_ESPERA == 90
TIMEOUT_OPERACAO == 10

Avioes == 1..MaxAvioes
Tipos == {"DOMESTICO", "INTERNACIONAL"}
Fases == {"pouso", "desembarque", "decolagem"}
Terminais == {"FALHA", "STARVATION", "DEADLOCK"}

\* elapsed times read by the code: one value below, inside and above each
\* interval it tests
TemposEspera == {0, ALERTA_CRITICO_SECS, TEMPO_MAXIMO_ESPERA}
TemposReserva == {0, TIMEOUT_OPERACAO}
TemposFase == {0, LIMITE_DEADLOCK + 1}

VARIABLES
  criados, m_pc, simulacao_ativa,
  tipo, pc, fase,
  status_final, em_alerta_critico,
  alertou,      \* history: the critical alert of the aircraft has fired
  has_pista, has_portao, has_torre,
  inicio, fim,
  need, ret,
  pistas_disp, portoes_disp, torres_disp,
  pistas, portoes, torres,
  esperando_internacional, esperando_domestico,
  reserva_mutex,
  deadlock_count, acidentes_count,
  mon_pc, mon_detectados, mon_lido,
  \* src/So_restrito.c
  r_criados, r_tipo, r_pc, r_fase, r_held,
  r_falhou, r_boosted, r_alertas_starv, r_estado,
  r_sem, aguardando_internacional,
  programa,     \* the source file of the build that runs
  devolveu,     \* history: a rollback of the aircraft posted a unit back
  \* src/So-final.c, the three mutexes
  mutex_dono,   \* the thread that holds each mutex, 0 when it is free
  mutex_pc      \* where each thread is among its lock and unlock calls

gMain == <<criados, m_pc, simulacao_ativa, tipo>>
gMon == <<mon_pc, mon_detectados, mon_lido>>
gSem == <<pistas, portoes, torres>>
gDisp == <<pistas_disp, portoes_disp, torres_disp>>
gHas == <<has_pista, has_portao, has_torre>>
gFila == <<esperando_internacional, esperando_domestico>>
gStat == <<status_final, em_alerta_critico, alertou, deadlock_count, acidentes_count>>
gFase == <<inicio, fim>>
gLoc == <<fase, need, ret>>

\* the mutex variables move only in the steps of Part VII; they are in both
\* groups, so that every other step leaves them alone
varsMutex == <<mutex_dono, mutex_pc>>

varsFinal == <<gMain, gMon, gSem, gDisp, gHas, gFila, gStat, gFase, gLoc,
               pc, reserva_mutex, varsMutex>>

rRec == <<r_falhou, r_boosted, r_alertas_starv, r_estado>>

varsRestrito == <<r_criados, r_tipo, r_pc, r_fase, r_held, rRec, r_sem,
                  aguardando_internacional, programa, devolveu, varsMutex>>

vars == <<varsFinal, varsRestrito>>

\* the threads of So-final.c: the workers, monitor_deadlock and main
Monitor == MaxAvioes + 1
Main == MaxAvioes + 2
Threads == 1..(MaxAvioes + 2)
Mutexes == {"avioes_mutex", "fila_mutex", "reserva_mutex"}

\* the three PTHREAD_MUTEX_INITIALIZER: every mutex free, no thread inside a
\* function that locks
InitMutex ==
  /\ mutex_dono = [m \in Mutexes |-> 0]
  /\ mutex_pc = [t \in Threads |-> "fora"]

NenhumaFase == [f \in Fases |-> FALSE]
NeedZero == [pista |-> 0, portao |-> 0, torre |-> 0]

\* ---- state after inicializarRecursos, the memset of avioes[] and the creation
\* of the monitor thread in main (simulacao_ativa is set: the monitor is in
\* its loop)
InitFinal ==
  /\ InitMutex
  /\ criados = 0 /\ m_pc = "criando" /\ simulacao_ativa = TRUE
  /\ tipo = [a \in Avioes |-> "DOMESTICO"]
  /\ pc = [a \in Avioes |-> "nao_criado"]
  /\ fase = [a \in Avioes |-> "nenhuma"]
  /\ status_final = [a \in Avioes |-> "SUCESSO"]
  /\ em_alerta_critico = [a \in Avioes |-> FALSE]
  /\ alertou = [a \in Avioes |-> FALSE]
  /\ has_pista = [a \in Avioes |-> FALSE]
  /\ has_portao = [a \in Avioes |-> FALSE]
  /\ has_torre = [a \in Avioes |-> FALSE]
  /\ inicio = [a \in Avioes |-> NenhumaFase]
  /\ fim = [a \in Avioes |-> NenhumaFase]
  /\ need = [a \in Avioes |-> NeedZero]
  /\ ret = [a \in Avioes |-> "nenhum"]
  /\ pistas_disp = N_PISTAS /\ portoes_disp = N_PORTOES /\ torres_disp = N_TORRES
  /\ pistas = N_PISTAS /\ portoes = N_PORTOES /\ torres = N_TORRES
  /\ esperando_internacional = 0 /\ esperando_domestico = 0
  /\ reserva_mutex = 0
  /\ deadlock_count = 0 /\ acidentes_count = 0
  /\ mon_pc = "dormindo" /\ mon_detectados = 0 /\ mon_lido = 0

\* ---- main: aircraft creation loop (record initialisation, pthread_create);
\* the new thread clears its own has_* flags, already zero, and enters pouso
StatusInicial == "SUCESSO"

Criar(t) ==
  /\ m_pc = "criando" /\ criados < MaxAvioes
  /\ LET a == criados + 1 IN
       /\ tipo' = [tipo EXCEPT ![a] = t]
       /\ status_final' = [status_final EXCEPT ![a] = StatusInicial]
       /\ em_alerta_critico' = [em_alerta_critico EXCEPT ![a] = FALSE]
       /\ inicio' = [inicio EXCEPT ![a] = NenhumaFase]
       /\ fim' = [fim EXCEPT ![a] = NenhumaFase]
       /\ has_pista' = [has_pista EXCEPT ![a] = FALSE]
       /\ has_portao' = [has_portao EXCEPT ![a] = FALSE]
       /\ has_torre' = [has_torre EXCEPT ![a] = FALSE]
       /\ fase' = [fase EXCEPT ![a] = "pouso"]
       /\ pc' = [pc EXCEPT ![a] = "inicio_fase"]
  /\ criados' = criados + 1
  /\ UNCHANGED <<varsRestrito, m_pc, simulacao_ativa, gMon, gSem, gDisp, gFila,
                 deadlock_count, acidentes_count, alertou, need, ret, reserva_mutex>>

\* variant: the 90 rule that treats every aircraft as a Domestic
VerificarStarvation_semClasse(a, tempo_espera) ==
  LET igual == [st |-> status_final[a], al |-> em_alerta_critico[a],
                ac |-> acidentes_count, dl |-> deadlock_count]
  IN IF status_final[a] \in {"FALHA", "STARVATION", "DEADLOCK"} THEN igual
     ELSE IF /\ tempo_espera >= ALERTA_CRITICO_SECS
             /\ tempo_espera < TEMPO_MAXIMO_ESPERA
             /\ ~em_alerta_critico[a]
          THEN [igual EXCEPT !.st = "ALERTA_CRITICO", !.al = TRUE]
     ELSE IF tempo_espera >= TEMPO_MAXIMO_ESPERA
          THEN [igual EXCEPT !.st = "STARVATION", !.ac = acidentes_count + 1]
     ELSE igual

\* ---- verificar_starvation: the record's status, alert flag and the two
\* ---- counters after the call, as a record
VerificarStarvation(a, tempo_espera) ==
  LET igual == [st |-> status_final[a], al |-> em_alerta_critico[a],
                ac |-> acidentes_count, dl |-> deadlock_count]
  IN IF status_final[a] \in {"FALHA", "STARVATION", "DEADLOCK"} THEN igual
     ELSE IF /\ tempo_espera >= ALERTA_CRITICO_SECS
             /\ tempo_espera < TEMPO_MAXIMO_ESPERA
             /\ ~em_alerta_critico[a]
          THEN [igual EXCEPT !.st = "ALERTA_CRITICO", !.al = TRUE]
     ELSE IF tempo_espera >= TEMPO_MAXIMO_ESPERA
          THEN IF tipo[a] = "DOMESTICO"
               THEN [igual EXCEPT !.st = "STARVATION", !.ac = acidentes_count + 1]
               ELSE [igual EXCEPT !.st = "DEADLOCK", !.dl = deadlock_count + 1]
     ELSE igual

\* the test checa_falha applies to the status after verificar_starvation
Falhou(st) == st \in {"FALHA", "STARVATION"}

\* checa_falha(a): runs verificar_starvation; its result is Falhou of the
\* primed status
ChecaFalha(a) ==
  \E tempo_espera \in TemposEspera :
    LET r == VerificarStarvation(a, tempo_espera) IN
      /\ status_final' = [status_final EXCEPT ![a] = r.st]
      /\ em_alerta_critico' = [em_alerta_critico EXCEPT ![a] = r.al]
      /\ alertou' = [alertou EXCEPT ![a] = @ \/ r.al]
      /\ acidentes_count' = r.ac
      /\ deadlock_count' = r.dl

\* ---- return of a phase function with a failure value, which aviao_thread
\* keeps in r, and pthread_exit: the locals of the phase cease to exist
Encerra(a, r) ==
  /\ pc' = [pc EXCEPT ![a] = "terminado"]
  /\ fase' = [fase EXCEPT ![a] = "nenhuma"]
  /\ need' = [need EXCEPT ![a] = NeedZero]
  /\ ret' = [ret EXCEPT ![a] = r]

\* ---- pouso / desembarque / decolagem: first checa_falha of the phase
InicioFase(a) ==
  /\ pc[a] = "inicio_fase"
  /\ ChecaFalha(a)
  /\ IF Falhou(status_final'[a])
     THEN Encerra(a, "-1")
     ELSE pc' = [pc EXCEPT ![a] = "ag_entrar"] /\ UNCHANGED <<fase, need, ret>>
  /\ UNCHANGED <<varsRestrito, gMain, gMon, gSem, gDisp, gHas, gFila, gFase, reserva_mutex>>

\* ---- aguardar_prioridade
\* variant: the same limit for both classes
LimiteFila_zero(t) == 0

LimiteFila(t) == IF t = "INTERNACIONAL" THEN 1 ELSE 0

\* the first two conjuncts of the while condition of the wait loop
CondicaoFila(a, ei) == ei > LimiteFila(tipo[a]) /\ simulacao_ativa

\* one pass under fila_mutex: the while condition and, when the loop is left,
\* the if that follows it and the unlock. checa_falha is reached (in the loop
\* condition or in the if) exactly when simulacao_ativa is set
AguardarPasso(a, ei, ed) ==
  /\ IF simulacao_ativa THEN ChecaFalha(a) ELSE UNCHANGED gStat
  /\ LET fica == /\ CondicaoFila(a, ei)
                 /\ ~Falhou(status_final'[a])
                 /\ ~em_alerta_critico'[a]
         sai == ~simulacao_ativa \/ Falhou(status_final'[a])
     IN /\ pc' = [pc EXCEPT ![a] = IF fica THEN "ag_wait" ELSE "pos_ag"]
        /\ esperando_internacional' =
             IF ~fica /\ sai /\ tipo[a] = "INTERNACIONAL" THEN ei - 1 ELSE ei
        /\ esperando_domestico' =
             IF ~fica /\ sai /\ tipo[a] = "DOMESTICO" THEN ed - 1 ELSE ed

\* entry: ultimo_tempo_espera, the registration, first pass of the loop
AguardarEntrar(a) ==
  /\ pc[a] = "ag_entrar"
  /\ IF tipo[a] = "INTERNACIONAL"
     THEN AguardarPasso(a, esperando_internacional + 1, esperando_domestico)
     ELSE AguardarPasso(a, esperando_internacional, esperando_domestico + 1)
  /\ UNCHANGED <<varsRestrito, gMain, gMon, gSem, gDisp, gHas, gFase, gLoc, reserva_mutex>>

\* pthread_cond_timedwait returns and the loop condition is evaluated again
AguardarLoop(a) ==
  /\ pc[a] = "ag_wait"
  /\ AguardarPasso(a, esperando_internacional, esperando_domestico)
  /\ UNCHANGED <<varsRestrito, gMain, gMon, gSem, gDisp, gHas, gFase, gLoc, reserva_mutex>>

\* ---- liberar_prioridade: the two counts after the call
EspIntApos(t) ==
  IF t = "INTERNACIONAL" /\ esperando_internacional > 0
  THEN esperando_internacional - 1 ELSE esperando_internacional

EspDomApos(t) ==
  IF t = "DOMESTICO" /\ esperando_domestico > 0
  THEN esperando_domestico - 1 ELSE esperando_domestico

LiberarPrioridade(t) ==
  /\ esperando_internacional' = EspIntApos(t)
  /\ esperando_domestico' = EspDomApos(t)

\* remaining need of a phase, from the held flags
NeedDe(a, f) ==
  [pista |-> IF f \in {"pouso", "decolagem"} /\ ~has_pista[a] THEN 1 ELSE 0,
   portao |-> IF f \in {"desembarque", "decolagem"} /\ ~has_portao[a] THEN 1 ELSE 0,
   torre |-> IF ~has_torre[a] THEN 1 ELSE 0]

\* second checa_falha of the phase: on failure liberar_prioridade and return;
\* otherwise inicio_X and the need_* locals
PosAguardar(a) ==
  /\ pc[a] = "pos_ag"
  /\ ChecaFalha(a)
  /\ IF Falhou(status_final'[a])
     THEN /\ LiberarPrioridade(tipo[a])
          /\ Encerra(a, "-1")
          /\ UNCHANGED gFase
     ELSE /\ inicio' = [inicio EXCEPT ![a][fase[a]] = TRUE]
          /\ need' = [need EXCEPT ![a] = NeedDe(a, fase[a])]
          /\ pc' = [pc EXCEPT ![a] = "rs_loop"]
          /\ UNCHANGED <<fim, fase, ret, gFila>>
  /\ UNCHANGED <<varsRestrito, gMain, gMon, gSem, gDisp, gHas, reserva_mutex>>

\* ---- reservar_recursos
\* top of the while(1), on entry (lock) or after the timed wait: the
\* simulacao_ativa test and checa_falha. On SEM_SIM_ENCERRADA and
\* SEM_AVIAO_FALHOU the mutex is dropped and the phase calls
\* liberar_prioridade and returns
RsLoop(a) ==
  /\ pc[a] = "rs_loop" /\ reserva_mutex = 0
  /\ IF simulacao_ativa THEN ChecaFalha(a) ELSE UNCHANGED gStat
  /\ IF ~simulacao_ativa \/ Falhou(status_final'[a])
     THEN /\ LiberarPrioridade(tipo[a])
          /\ Encerra(a, IF ~simulacao_ativa THEN "SEM_SIM_ENCERRADA"
                        ELSE "SEM_AVIAO_FALHOU")
          /\ UNCHANGED reserva_mutex
     ELSE /\ reserva_mutex' = a
          /\ pc' = [pc EXCEPT ![a] = "rs_chk"]
          /\ UNCHANGED <<gFila, gLoc>>
  /\ UNCHANGED <<varsRestrito, gMain, gMon, gSem, gDisp, gHas, gFase>>

\* variant: the yield rule without the critical-alert bypass
DomesticoBloqueado_semAlerta(a) ==
  tipo[a] = "DOMESTICO" /\ esperando_internacional > 0

\* the class-yield rule of the gate
DomesticoBloqueado(a) ==
  ~em_alerta_critico[a] /\ tipo[a] = "DOMESTICO" /\ esperando_internacional > 0

\* variant: the availability test without the gate counter
Disponivel_semPortao(n) ==
  pistas_disp >= n.pista /\ torres_disp >= n.torre

\* the availability test of the gate
Disponivel(n) ==
  pistas_disp >= n.pista /\ portoes_disp >= n.portao /\ torres_disp >= n.torre

\* the admission decision of both branches (critical alert or not)
Admitido(a) == ~DomesticoBloqueado(a) /\ Disponivel(need[a])

\* variant: a refused request still takes the tower slot when one is free
Debito_parcial(a, admitido) ==
  IF admitido THEN need[a]
  ELSE [NeedZero EXCEPT !.torre = IF torres_disp >= need[a].torre
                                  THEN need[a].torre ELSE 0]

\* what the decision takes from the three counters
Debito(a, admitido) == IF admitido THEN need[a] ELSE NeedZero

\* the admission decision; when it fails, the timeout test and the timed wait
RsChk(a, decorrido) ==
  /\ pc[a] = "rs_chk" /\ reserva_mutex = a
  /\ LET d == Debito(a, Admitido(a)) IN
       /\ pistas_disp' = pistas_disp - d.pista
       /\ portoes_disp' = portoes_disp - d.portao
       /\ torres_disp' = torres_disp - d.torre
  /\ pc' = [pc EXCEPT ![a] = IF Admitido(a) THEN "sw_torre"
                             ELSE IF decorrido >= TIMEOUT_OPERACAO
                             THEN "marca_falha" ELSE "rs_loop"]
  /\ reserva_mutex' = 0
  /\ UNCHANGED <<varsRestrito, gMain, gMon, gSem, gHas, gFila, gStat, gFase, gLoc>>

\* r == SEM_TIMEOUT in the phase: status_final = FALHA, liberar_prioridade,
\* return
MarcaFalha(a) ==
  /\ pc[a] = "marca_falha"
  /\ status_final' = [status_final EXCEPT ![a] = "FALHA"]
  /\ LiberarPrioridade(tipo[a])
  /\ Encerra(a, "-1")
  /\ UNCHANGED <<varsRestrito, gMain, gMon, gSem, gDisp, gHas, em_alerta_critico, alertou,
                 deadlock_count, acidentes_count, gFase, reserva_mutex>>

\* variant: liberar_reserva that gives no gate unit back
LiberarReserva_semPortao(p, g, t) ==
  /\ reserva_mutex = 0
  /\ pistas_disp' = pistas_disp + p
  /\ portoes_disp' = portoes_disp
  /\ torres_disp' = torres_disp + t
  /\ UNCHANGED reserva_mutex

\* ---- liberar_reserva
LiberarReserva(p, g, t) ==
  /\ reserva_mutex = 0
  /\ pistas_disp' = pistas_disp + p
  /\ portoes_disp' = portoes_disp + g
  /\ torres_disp' = torres_disp + t
  /\ UNCHANGED reserva_mutex

\* variant: decolagem takes the runway before the gate
ProximoSem_pistaAntes(f, atual) ==
  IF atual = "sw_torre"
  THEN (IF f = "desembarque" THEN "sw_portao" ELSE "sw_pista")
  ELSE IF atual = "sw_pista"
  THEN (IF f = "decolagem" THEN "sw_portao" ELSE "soltar")
  ELSE "soltar"

\* ---- physical acquisition, in the order of each phase; after the last
\* one the phase sleeps holding its resources
ProximoSem(f, atual) ==
  IF atual = "sw_torre"
  THEN (IF f = "pouso" THEN "sw_pista" ELSE "sw_portao")
  ELSE IF atual = "sw_portao"
  THEN (IF f = "decolagem" THEN "sw_pista" ELSE "soltar")
  ELSE "soltar"

JaTem(a) ==
  IF pc[a] = "sw_torre" THEN has_torre[a]
  ELSE IF pc[a] = "sw_portao" THEN has_portao[a]
  ELSE has_pista[a]

\* sem_wait returns 0 (or the resource is flagged as held and is skipped)
SemWait(a) ==
  /\ pc[a] \in {"sw_torre", "sw_portao", "sw_pista"}
  /\ IF JaTem(a) THEN UNCHANGED <<gSem, gHas>>
     ELSE IF pc[a] = "sw_torre"
     THEN /\ torres > 0 /\ torres' = torres - 1
          /\ has_torre' = [has_torre EXCEPT ![a] = TRUE]
          /\ UNCHANGED <<pistas, portoes, has_pista, has_portao>>
     ELSE IF pc[a] = "sw_portao"
     THEN /\ portoes > 0 /\ portoes' = portoes - 1
          /\ has_portao' = [has_portao EXCEPT ![a] = TRUE]
          /\ UNCHANGED <<pistas, torres, has_pista, has_torre>>
     ELSE /\ pistas > 0 /\ pistas' = pistas - 1
          /\ has_pista' = [has_pista EXCEPT ![a] = TRUE]
          /\ UNCHANGED <<portoes, torres, has_portao, has_torre>>
  /\ pc' = [pc EXCEPT ![a] = ProximoSem(fase[a], pc[a])]
  /\ UNCHANGED <<varsRestrito, gMain, gMon, gDisp, gFila, gStat, gFase, gLoc, reserva_mutex>>

\* rollback of the units taken before a failed sem_wait
DevolveTorre(a) == pc[a] \in {"sw_portao", "sw_pista"} /\ has_torre[a]

\* variant: the rollback of decolagem that forgets the gate
DevolvePortao_nunca(a) == FALSE

DevolvePortao(a) == pc[a] = "sw_pista" /\ fase[a] = "decolagem" /\ has_portao[a]

\* variant: the rollback that credits back no tower slot
CreditoRollback_semTorre(a) == [need[a] EXCEPT !.torre = 0]

\* the amounts the rollback credits back to the gate
CreditoRollback(a) == need[a]

\* sem_wait returns non-zero: the rollback branch. The posts, the credit and
\* liberar_prioridade only release, so they are taken in one step
SemWaitFalha(a) ==
  /\ pc[a] \in {"sw_torre", "sw_portao", "sw_pista"}
  /\ ~JaTem(a)
  /\ torres' = IF DevolveTorre(a) THEN torres + 1 ELSE torres
  /\ has_torre' = [has_torre EXCEPT ![a] = IF DevolveTorre(a) THEN FALSE ELSE @]
  /\ portoes' = IF DevolvePortao(a) THEN portoes + 1 ELSE portoes
  /\ has_portao' = [has_portao EXCEPT ![a] = IF DevolvePortao(a) THEN FALSE ELSE @]
  /\ LET c == CreditoRollback(a) IN LiberarReserva(c.pista, c.portao, c.torre)
  /\ LiberarPrioridade(tipo[a])
  /\ Encerra(a, "-1")
  /\ UNCHANGED <<varsRestrito, gMain, gMon, pistas, has_pista, gStat, gFase>>

\* ---- end of a phase
\* fim_X, ultimo_tempo_espera, em_alerta_critico and the status at phase end
StatusFimFase(st) == IF st = "ALERTA_CRITICO" THEN "SUCESSO" ELSE st

\* aviao_thread after decolagem returned 0
StatusFimThread(st) == "SUCESSO"

ProximaFase(f) == IF f = "pouso" THEN "desembarque" ELSE "decolagem"

\* the record update under avioes_mutex, liberar_prioridade, return 0, and
\* aviao_thread going on to the next phase or, after decolagem, writing the
\* final status and leaving
FimFase(a) ==
  /\ fim' = [fim EXCEPT ![a][fase[a]] = TRUE]
  /\ em_alerta_critico' = [em_alerta_critico EXCEPT ![a] = FALSE]
  /\ LiberarPrioridade(tipo[a])
  /\ need' = [need EXCEPT ![a] = NeedZero]
  /\ ret' = [ret EXCEPT ![a] = "0"]
  /\ IF fase[a] = "decolagem"
     THEN /\ status_final' = [status_final EXCEPT ![a] = StatusFimThread(StatusFimFase(@))]
          /\ pc' = [pc EXCEPT ![a] = "terminado"]
          /\ fase' = [fase EXCEPT ![a] = "nenhuma"]
     ELSE /\ status_final' = [status_final EXCEPT ![a] = StatusFimFase(@)]
          /\ pc' = [pc EXCEPT ![a] = "inicio_fase"]
          /\ fase' = [fase EXCEPT ![a] = ProximaFase(@)]
  /\ UNCHANGED <<inicio, deadlock_count, acidentes_count, alertou>>

\* the semaphores a phase posts after its sleep, each guarded by its has_*
\* flag. pouso: pista, torre; desembarque: torre; decolagem: torre, portao,
\* pista
SoltaPista(a) == fase[a] \in {"pouso", "decolagem"} /\ has_pista[a]

SoltaPortao(a) == fase[a] = "decolagem" /\ has_portao[a]

SoltaTorre(a) == has_torre[a]

\* pouso and decolagem after the sleep: the posts, liberar_reserva of the
\* whole need and the end of the phase. All of it only releases, so it is
\* taken in one step
Soltar(a) ==
  /\ pc[a] = "soltar" /\ fase[a] # "desembarque"
  /\ pistas' = IF SoltaPista(a) THEN pistas + 1 ELSE pistas
  /\ portoes' = IF SoltaPortao(a) THEN portoes + 1 ELSE portoes
  /\ torres' = IF SoltaTorre(a) THEN torres + 1 ELSE torres
  /\ has_pista' = [has_pista EXCEPT ![a] = IF SoltaPista(a) THEN FALSE ELSE @]
  /\ has_portao' = [has_portao EXCEPT ![a] = IF SoltaPortao(a) THEN FALSE ELSE @]
  /\ has_torre' = [has_torre EXCEPT ![a] = IF SoltaTorre(a) THEN FALSE ELSE @]
  /\ LiberarReserva(need[a].pista, need[a].portao, need[a].torre)
  /\ FimFase(a)
  /\ UNCHANGED <<varsRestrito, gMain, gMon>>

\* desembarque after the sleep: the tower post and
\* liberar_reserva(0, 0, need_torre); the gate stays occupied
SoltarTorre(a) ==
  /\ pc[a] = "soltar" /\ fase[a] = "desembarque"
  /\ torres' = IF SoltaTorre(a) THEN torres + 1 ELSE torres
  /\ has_torre' = [has_torre EXCEPT ![a] = IF SoltaTorre(a) THEN FALSE ELSE @]
  /\ LiberarReserva(0, 0, need[a].torre)
  /\ pc' = [pc EXCEPT ![a] = "ocupa_portao"]
  /\ UNCHANGED <<varsRestrito, gMain, gMon, pistas, portoes, has_pista, has_portao, gFila,
                 gStat, gFase, gLoc>>

\* desembarque: after the second sleep the gate post,
\* liberar_reserva(0, need_portao, 0) and the end of the phase
SoltarPortao(a) ==
  /\ pc[a] = "ocupa_portao"
  /\ portoes' = IF has_portao[a] THEN portoes + 1 ELSE portoes
  /\ has_portao' = [has_portao EXCEPT ![a] = FALSE]
  /\ LiberarReserva(0, need[a].portao, 0)
  /\ FimFase(a)
  /\ UNCHANGED <<varsRestrito, gMain, gMon, pistas, torres, has_pista, has_torre>>

\* ---- monitor_deadlock
\* variant: the sweep that also skips the records still PENDENTE
MonitorIgnora_comPendente(st) ==
  st \in {"PENDENTE", "SUCESSO", "FALHA", "STARVATION", "DEADLOCK"}

\* the records the sweep skips
MonitorIgnora(st) == st \in {"SUCESSO", "FALHA", "STARVATION", "DEADLOCK"}

\* a phase started, not finished, and older than LIMITE_DEADLOCK
FaseParada(a, idade) ==
  \E f \in Fases : inicio[a][f] /\ ~fim[a][f] /\ idade > LIMITE_DEADLOCK

Detectado(a, idade) ==
  a <= criados /\ ~MonitorIgnora(status_final[a]) /\ FaseParada(a, idade)

\* variant: the sweep also takes back what a reclassified aircraft holds
MonitorSweep_libera ==
  /\ mon_pc = "dormindo"
  /\ \E idades \in [Avioes -> TemposFase] :
       LET D == {a \in Avioes : Detectado(a, idades[a])} IN
         /\ status_final' = [a \in Avioes |->
                               IF a \in D THEN "DEADLOCK" ELSE status_final[a]]
         /\ mon_detectados' = Cardinality(D)
         /\ has_pista' = [a \in Avioes |-> has_pista[a] /\ a \notin D]
         /\ has_portao' = [a \in Avioes |-> has_portao[a] /\ a \notin D]
         /\ has_torre' = [a \in Avioes |-> has_torre[a] /\ a \notin D]
         /\ pistas' = pistas + Cardinality({a \in D : has_pista[a]})
         /\ portoes' = portoes + Cardinality({a \in D : has_portao[a]})
         /\ torres' = torres + Cardinality({a \in D : has_torre[a]})
  /\ mon_lido' = deadlock_count
  /\ mon_pc' = "somar"
  /\ UNCHANGED <<varsRestrito, gMain, gDisp, gFila, em_alerta_critico, alertou,
                 deadlock_count, acidentes_count, gFase, gLoc, pc, reserva_mutex>>

\* sleep(INTERVALO_MONITOR), the sweep under avioes_mutex, then the load of
\* deadlock_count += detectados, which is made outside every mutex
MonitorSweep ==
  /\ mon_pc = "dormindo"
  /\ \E idades \in [Avioes -> TemposFase] :
       /\ status_final' = [a \in Avioes |->
                             IF Detectado(a, idades[a]) THEN "DEADLOCK"
                             ELSE status_final[a]]
       /\ mon_detectados' = Cardinality({a \in Avioes : Detectado(a, idades[a])})
  /\ mon_lido' = deadlock_count
  /\ mon_pc' = "somar"
  /\ UNCHANGED <<varsRestrito, gMain, gSem, gDisp, gHas, gFila, em_alerta_critico, alertou,
                 deadlock_count, acidentes_count, gFase, gLoc, pc, reserva_mutex>>

\* variant: the monitor loop that never tests simulacao_ativa
MonitorSomar_semFim ==
  /\ mon_pc = "somar"
  /\ deadlock_count' = mon_lido + mon_detectados
  /\ mon_pc' = "dormindo"
  /\ mon_lido' = 0 /\ mon_detectados' = 0
  /\ UNCHANGED <<varsRestrito, gMain, gSem, gDisp, gHas, gFila, status_final, em_alerta_critico, alertou,
                 acidentes_count, gFase, gLoc, pc, reserva_mutex>>

\* the store of deadlock_count += detectados, then while (simulacao_ativa)
MonitorSomar ==
  /\ mon_pc = "somar"
  /\ deadlock_count' = mon_lido + mon_detectados
  /\ mon_pc' = IF simulacao_ativa THEN "dormindo" ELSE "terminado"
  /\ mon_lido' = 0 /\ mon_detectados' = 0
  /\ UNCHANGED <<varsRestrito, gMain, gSem, gDisp, gHas, gFila, status_final, em_alerta_critico, alertou,
                 acidentes_count, gFase, gLoc, pc, reserva_mutex>>

\* ---- main: end of the creation loop and shutdown: simulacao_ativa = 0, the
\* broadcasts, and the loop that posts the three semaphores once per created
\* aircraft
MainEncerrar ==
  /\ m_pc = "criando"
  /\ simulacao_ativa' = FALSE
  /\ pistas' = pistas + criados
  /\ portoes' = portoes + criados
  /\ torres' = torres + criados
  /\ m_pc' = "juntando"
  /\ UNCHANGED <<varsRestrito, criados, tipo, gMon, gDisp, gHas, gFila, gStat,
                 gFase, gLoc, pc, reserva_mutex>>

\* pthread_join of every worker, then of the monitor; gerarRelatorioFinal
MainJoin ==
  /\ m_pc = "juntando"
  /\ \A a \in Avioes : a <= criados => pc[a] = "terminado"
  /\ mon_pc = "terminado"
  /\ m_pc' = "relatorio"
  /\ UNCHANGED <<varsRestrito, criados, simulacao_ativa, tipo, gMon, gSem, gDisp, gHas,
                 gFila, gStat, gFase, gLoc, pc, reserva_mutex>>

Next ==
  \/ \E t \in Tipos : Criar(t)
  \/ \E a \in Avioes : InicioFase(a)
  \/ \E a \in Avioes : AguardarEntrar(a)
  \/ \E a \in Avioes : AguardarLoop(a)
  \/ \E a \in Avioes : PosAguardar(a)
  \/ \E a \in Avioes : RsLoop(a)
  \/ \E a \in Avioes, d \in TemposReserva : RsChk(a, d)
  \/ \E a \in Avioes : MarcaFalha(a)
  \/ \E a \in Avioes : SemWait(a)
  \/ \E a \in Avioes : SemWaitFalha(a)
  \/ \E a \in Avioes : Soltar(a)
  \/ \E a \in Avioes : SoltarTorre(a)
  \/ \E a \in Avioes : SoltarPortao(a)
  \/ MonitorSweep
  \/ MonitorSomar
  \/ MainEncerrar
  \/ MainJoin

(***************************************************************************)
(* Part II: src/So_restrito.c                                              *)
(***************************************************************************)
ALERTA_CRITICO == 60
FALHA_TIMEOUT == 90
TIMEOUT_RECURSO == 2

TemposStarvation == {0, ALERTA_CRITICO, FALHA_TIMEOUT}
TemposRecurso == {0, TIMEOUT_RECURSO}

\* state after sem_init in main; estado keeps EST_CRIADO, EST_FINAL and
\* EST_FALHA and one value, "EST_ATIVO", for the waiting and running states
InitRestrito ==
  /\ r_criados = 0
  /\ r_tipo = [a \in Avioes |-> "DOMESTICO"]
  /\ r_pc = [a \in Avioes |-> "nao_criado"]
  /\ r_fase = [a \in Avioes |-> "pouso"]
  /\ r_held = [a \in Avioes |-> <<>>]
  /\ r_falhou = [a \in Avioes |-> FALSE]
  /\ r_boosted = [a \in Avioes |-> FALSE]
  /\ r_alertas_starv = [a \in Avioes |-> 0]
  /\ r_estado = [a \in Avioes |-> "EST_CRIADO"]
  /\ r_sem = [pista |-> N_PISTAS, portao |-> N_PORTOES, torre |-> N_TORRES]
  /\ aguardando_internacional = 0
  /\ programa = "So_restrito.c"
  /\ devolveu = [a \in Avioes |-> FALSE]

Init == InitFinal /\ InitRestrito

\* ---- main: calloc of the record, pthread_create; rotina_aviao enters
\* fase_pouso
R_Criar(t) ==
  /\ r_criados < MaxAvioes
  /\ LET a == r_criados + 1 IN
       /\ r_tipo' = [r_tipo EXCEPT ![a] = t]
       /\ r_pc' = [r_pc EXCEPT ![a] = "adquirir"]
       /\ r_fase' = [r_fase EXCEPT ![a] = "pouso"]
       /\ r_estado' = [r_estado EXCEPT ![a] = "EST_ATIVO"]
  /\ r_criados' = r_criados + 1
  /\ UNCHANGED <<varsFinal, programa, devolveu, r_held, r_falhou, r_boosted, r_alertas_starv, r_sem,
                 aguardando_internacional>>

\* ---- checa_starvation: the fields of the record after the call
ChecaStarvation(a, espera) ==
  LET igual == [falhou |-> r_falhou[a], boosted |-> r_boosted[a],
                alertas |-> r_alertas_starv[a], estado |-> r_estado[a]]
      alerta == espera >= ALERTA_CRITICO /\ r_alertas_starv[a] = 0
      apos == IF alerta
              THEN [igual EXCEPT !.alertas = 1,
                                 !.boosted = @ \/ r_tipo[a] = "DOMESTICO"]
              ELSE igual
  IN IF r_falhou[a] \/ r_estado[a] = "EST_FINAL" THEN igual
     ELSE IF espera >= FALHA_TIMEOUT
          THEN [apos EXCEPT !.falhou = TRUE, !.estado = "EST_FALHA"]
          ELSE apos

AplicaStarvation(a, espera) ==
  LET r == ChecaStarvation(a, espera) IN
    /\ r_falhou' = [r_falhou EXCEPT ![a] = r.falhou]
    /\ r_boosted' = [r_boosted EXCEPT ![a] = r.boosted]
    /\ r_alertas_starv' = [r_alertas_starv EXCEPT ![a] = r.alertas]
    /\ r_estado' = [r_estado EXCEPT ![a] = r.estado]

\* ---- adquirir_fase: the order of acquisition per class and phase
Ordem(t, f) ==
  IF f = "pouso"
  THEN (IF t = "INTERNACIONAL" THEN <<"pista", "torre">> ELSE <<"torre", "pista">>)
  ELSE IF f = "desembarque"
  THEN (IF t = "INTERNACIONAL" THEN <<"portao", "torre">> ELSE <<"torre", "portao">>)
  ELSE (IF t = "INTERNACIONAL" THEN <<"portao", "pista", "torre">>
        ELSE <<"torre", "portao", "pista">>)

\* the yield test of a Domestic that was not boosted
DeveCeder(a) ==
  r_tipo[a] = "DOMESTICO" /\ ~r_boosted[a] /\ aguardando_internacional > 0

\* top of while (!a->falhou): when falhou is set adquirir_fase returns -1 and
\* the phases return; a Domestic that yields sleeps, calls checa_starvation
\* and goes round; otherwise an International registers and the for loop starts
R_Adquirir(a, espera) ==
  /\ r_pc[a] = "adquirir"
  /\ IF r_falhou[a]
     THEN /\ r_pc' = [r_pc EXCEPT ![a] = "fim"]
          /\ UNCHANGED <<rRec, aguardando_internacional>>
     ELSE IF DeveCeder(a)
     THEN /\ AplicaStarvation(a, espera)
          /\ UNCHANGED <<r_pc, aguardando_internacional>>
     ELSE /\ aguardando_internacional' =
               IF r_tipo[a] = "INTERNACIONAL" THEN aguardando_internacional + 1
               ELSE aguardando_internacional
          /\ r_pc' = [r_pc EXCEPT ![a] = "tentando"]
          /\ UNCHANGED rRec
  /\ UNCHANGED <<varsFinal, programa, devolveu, r_criados, r_tipo, r_fase, r_held, r_sem>>

\* sem_post of every unit of a sequence
Devolve(sem, rs) ==
  [x \in DOMAIN sem |-> sem[x] + Cardinality({k \in DOMAIN rs : rs[k] = x})]

\* one pass of the polling loop on resource ordem[i]: sem_trywait; when it
\* fails the sleep, checa_starvation, and the per-resource timeout with the
\* rollback of the units taken before
R_Tentar(a, espera, decorrido) ==
  /\ r_pc[a] = "tentando"
  /\ LET ordem == Ordem(r_tipo[a], r_fase[a])
         x == ordem[Len(r_held[a]) + 1]
     IN IF r_sem[x] > 0
        THEN /\ r_sem' = [r_sem EXCEPT ![x] = @ - 1]
             /\ r_held' = [r_held EXCEPT ![a] = Append(@, x)]
             /\ r_pc' = [r_pc EXCEPT ![a] =
                           IF r_falhou[a] \/ Len(r_held[a]) + 1 = Len(ordem)
                           THEN "pos_for" ELSE "tentando"]
             /\ UNCHANGED rRec
        ELSE /\ AplicaStarvation(a, espera)
             /\ IF r_falhou'[a]
                THEN /\ r_pc' = [r_pc EXCEPT ![a] = "pos_for"]
                     /\ UNCHANGED <<r_sem, r_held>>
                ELSE IF decorrido >= TIMEOUT_RECURSO
                THEN /\ r_sem' = Devolve(r_sem, r_held[a])
                     /\ r_held' = [r_held EXCEPT ![a] = <<>>]
                     /\ r_pc' = [r_pc EXCEPT ![a] = "pos_for"]
                ELSE UNCHANGED <<r_pc, r_sem, r_held>>
  /\ UNCHANGED <<varsFinal, programa, devolveu, r_criados, r_tipo, r_fase, aguardando_internacional>>

\* after the for loop: an International unregisters; return -1 when falhou,
\* return 0 when everything was acquired, else checa_starvation and go round
R_PosFor(a, espera) ==
  /\ r_pc[a] = "pos_for"
  /\ aguardando_internacional' =
       IF r_tipo[a] = "INTERNACIONAL" THEN aguardando_internacional - 1
       ELSE aguardando_internacional
  /\ IF r_falhou[a]
     THEN r_pc' = [r_pc EXCEPT ![a] = "fim"] /\ UNCHANGED rRec
     ELSE IF Len(r_held[a]) = Len(Ordem(r_tipo[a], r_fase[a]))
     THEN r_pc' = [r_pc EXCEPT ![a] = "executa"] /\ UNCHANGED rRec
     ELSE /\ AplicaStarvation(a, espera)
          /\ r_pc' = [r_pc EXCEPT ![a] = "adquirir"]
  /\ UNCHANGED <<varsFinal, programa, devolveu, r_criados, r_tipo, r_fase, r_held, r_sem>>

\* ---- executa_fase: the sleep of the phase, operacoes, and after decolagem
\* estado = EST_FINAL
R_Executa(a) ==
  /\ r_pc[a] = "executa"
  /\ r_estado' = [r_estado EXCEPT ![a] = IF r_fase[a] = "decolagem" THEN "EST_FINAL" ELSE @]
  /\ r_pc' = [r_pc EXCEPT ![a] = "libera"]
  /\ UNCHANGED <<varsFinal, programa, devolveu, r_criados, r_tipo, r_fase, r_held, r_falhou, r_boosted,
                 r_alertas_starv, r_sem, aguardando_internacional>>

\* ---- libera_fase: the unit posted first at the end of desembarque
PrimeiroDesembarque(t) == IF t = "INTERNACIONAL" THEN "torre" ELSE "portao"

\* without x
Retira(rs, x) == SelectSeq(rs, LAMBDA y : y # x)

\* rotina_aviao going on to the next phase, or returning
R_Proxima(a) ==
  IF r_fase[a] = "decolagem"
  THEN r_pc' = [r_pc EXCEPT ![a] = "fim"] /\ UNCHANGED r_fase
  ELSE /\ r_pc' = [r_pc EXCEPT ![a] = "adquirir"]
       /\ r_fase' = [r_fase EXCEPT ![a] = ProximaFase(@)]

\* pouso and decolagem post every unit; desembarque posts the first unit and
\* sleeps OCUPA_PORTAO_EXTRA
R_Libera(a) ==
  /\ r_pc[a] = "libera"
  /\ IF r_fase[a] = "desembarque"
     THEN LET x == PrimeiroDesembarque(r_tipo[a]) IN
            /\ r_sem' = [r_sem EXCEPT ![x] = @ + 1]
            /\ r_held' = [r_held EXCEPT ![a] = Retira(@, x)]
            /\ r_pc' = [r_pc EXCEPT ![a] = "ocupa"]
            /\ UNCHANGED r_fase
     ELSE /\ r_sem' = Devolve(r_sem, r_held[a])
          /\ r_held' = [r_held EXCEPT ![a] = <<>>]
          /\ R_Proxima(a)
  /\ UNCHANGED <<varsFinal, programa, devolveu, r_criados, r_tipo, rRec, aguardando_internacional>>

\* desembarque after the sleep: the second unit
R_LiberaSegundo(a) ==
  /\ r_pc[a] = "ocupa"
  /\ r_sem' = Devolve(r_sem, r_held[a])
  /\ r_held' = [r_held EXCEPT ![a] = <<>>]
  /\ R_Proxima(a)
  /\ UNCHANGED <<varsFinal, programa, devolveu, r_criados, r_tipo, rRec, aguardando_internacional>>

\* ---- rotina_monitor: checa_starvation of every record that is not final
R_Ativo(a) == a <= r_criados /\ r_estado[a] \notin {"EST_FINAL", "EST_FALHA"}

R_Monitor(esperas) ==
  /\ \E a \in Avioes : R_Ativo(a)
  /\ r_falhou' = [a \in Avioes |-> IF R_Ativo(a) THEN ChecaStarvation(a, esperas[a]).falhou ELSE r_falhou[a]]
  /\ r_boosted' = [a \in Avioes |-> IF R_Ativo(a) THEN ChecaStarvation(a, esperas[a]).boosted ELSE r_boosted[a]]
  /\ r_alertas_starv' = [a \in Avioes |-> IF R_Ativo(a) THEN ChecaStarvation(a, esperas[a]).alertas ELSE r_alertas_starv[a]]
  /\ r_estado' = [a \in Avioes |-> IF R_Ativo(a) THEN ChecaStarvation(a, esperas[a]).estado ELSE r_estado[a]]
  /\ UNCHANGED <<varsFinal, programa, devolveu, r_criados, r_tipo, r_pc, r_fase, r_held, r_sem,
                 aguardando_internacional>>

NextRestrito ==
  \/ \E t \in Tipos : R_Criar(t)
  \/ \E a \in Avioes, e \in TemposStarvation : R_Adquirir(a, e)
  \/ \E a \in Avioes, e \in TemposStarvation, d \in TemposRecurso : R_Tentar(a, e, d)
  \/ \E a \in Avioes, e \in TemposStarvation : R_PosFor(a, e)
  \/ \E a \in Avioes : R_Executa(a)
  \/ \E a \in Avioes : R_Libera(a)
  \/ \E a \in Avioes : R_LiberaSegundo(a)
  \/ \E es \in [Avioes -> TemposStarvation] : R_Monitor(es)

Spec == Init /\ [][Next]_vars

\* ---- scheduling of So-final.c: the steps of one worker thread, of the
\* monitor thread and of main. Every blocking call of the program is timed
\* (sem_timedwait, pthread_cond_timedwait, sleep) or a mutex held for a
\* bounded section, so a thread that the scheduler runs takes its next step
PassoDoAviao(a) ==
  \/ InicioFase(a) \/ AguardarEntrar(a) \/ AguardarLoop(a) \/ PosAguardar(a)
  \/ RsLoop(a) \/ (\E d \in TemposReserva : RsChk(a, d)) \/ MarcaFalha(a)
  \/ SemWait(a) \/ SemWaitFalha(a)
  \/ Soltar(a) \/ SoltarTorre(a) \/ SoltarPortao(a)

PassoDoMonitorFinal == MonitorSweep \/ MonitorSomar

PassoDoMain == (\E t \in Tipos : Criar(t)) \/ MainEncerrar \/ MainJoin

Justica ==
  /\ \A a \in Avioes : WF_vars(PassoDoAviao(a))
  /\ WF_vars(PassoDoMonitorFinal)
  /\ WF_vars(PassoDoMain)

SpecJusto == Init /\ [][Next]_vars /\ Justica

SpecRestrito == Init /\ [][NextRestrito]_vars
(***************************************************************************)
(* Properties                                                              *)
(***************************************************************************)
EmAquisicao == {"sw_torre", "sw_portao", "sw_pista"}

\* the part of a granted reservation that was not yet credited back
ReservaPendente(a) ==
  [pista |-> IF pc[a] \in EmAquisicao \cup {"soltar"} THEN need[a].pista ELSE 0,
   portao |-> IF pc[a] \in EmAquisicao \cup {"soltar", "ocupa_portao"}
              THEN need[a].portao ELSE 0,
   torre |-> IF pc[a] \in EmAquisicao \cup {"soltar"} THEN need[a].torre ELSE 0]

RECURSIVE SomaAte(_, _)
SomaAte(f, n) == IF n = 0 THEN 0 ELSE f[n] + SomaAte(f, n - 1)

Total(f) == SomaAte(f, MaxAvioes)

Quantos(flag) == Cardinality({a \in Avioes : flag[a]})

\* C1 as stated: in every reachable state, for each class, the gate counter
\* plus the number of aircraft whose held flag is set equals the capacity
C1_ContadorMaisFlags ==
  /\ pistas_disp + Quantos(has_pista) = N_PISTAS
  /\ portoes_disp + Quantos(has_portao) = N_PORTOES
  /\ torres_disp + Quantos(has_torre) = N_TORRES

\* C1 amended: in every reachable state, for each class, the gate counter plus
\* the units of the reservations granted and not yet credited back equals the
\* capacity, and an aircraft whose held flag is set has such a reservation
\* (so counter plus flags never exceeds the capacity)
C1_ContadorMaisReservas ==
  /\ pistas_disp + Total([a \in Avioes |-> ReservaPendente(a).pista]) = N_PISTAS
  /\ portoes_disp + Total([a \in Avioes |-> ReservaPendente(a).portao]) = N_PORTOES
  /\ torres_disp + Total([a \in Avioes |-> ReservaPendente(a).torre]) = N_TORRES
  /\ \A a \in Avioes :
       /\ has_pista[a] => ReservaPendente(a).pista = 1
       /\ has_portao[a] => ReservaPendente(a).portao = 1
       /\ has_torre[a] => ReservaPendente(a).torre = 1

\* a gate is reserved by an aircraft that holds the tower but not yet the gate,
\* after a rollback of another aircraft gave its reservation back
C1_Witness ==
  \E a, b \in Avioes :
    /\ pc[a] = "sw_portao" /\ has_torre[a] /\ ~has_portao[a] /\ portoes_disp = 0
    /\ pc[b] = "terminado" /\ ret[b] = "-1" /\ inicio[b]["pouso"] /\ ~fim[b]["pouso"]
    /\ status_final[b] \notin {"FALHA", "STARVATION"}

\* a step of aircraft a inside reservar_recursos
PassoReserva(a) == pc[a] \in {"rs_loop", "rs_chk"} /\ pc'[a] # pc[a]

Cobre(a) ==
  /\ pistas_disp >= need[a].pista
  /\ portoes_disp >= need[a].portao
  /\ torres_disp >= need[a].torre

Cede(a) ==
  tipo[a] = "DOMESTICO" /\ ~em_alerta_critico[a] /\ esperando_internacional > 0

\* C2: reservar_recursos is all-or-nothing. The step that decides, under
\* reserva_mutex, takes exactly the need from the three counters and grants
\* when all three cover the need and the yield rule admits the caller; each
\* other step of the call changes none of the counters and grants nothing
C2_TudoOuNada ==
  [][\A a \in Avioes :
       PassoReserva(a) =>
         IF pc[a] = "rs_chk" /\ Cobre(a) /\ ~Cede(a)
         THEN /\ pistas_disp' = pistas_disp - need[a].pista
              /\ portoes_disp' = portoes_disp - need[a].portao
              /\ torres_disp' = torres_disp - need[a].torre
              /\ pc'[a] = "sw_torre"
         ELSE /\ UNCHANGED gDisp
              /\ pc'[a] # "sw_torre"]_vars

\* a takeoff reservation took all three classes while another aircraft waits
\* in reservar_recursos
C2_Witness ==
  \E a, b \in Avioes :
    /\ pc[a] = "sw_torre" /\ fase[a] = "decolagem"
    /\ pistas_disp = 0 /\ portoes_disp = 0 /\ torres_disp = 0
    /\ pc[b] = "rs_loop" /\ fase[b] = "pouso"

\* C3: every step of reservar_recursos that does not grant leaves the caller's
\* held flags and the three counters as they were, so they have the values of
\* the start of the call when it returns SEM_TIMEOUT, SEM_SIM_ENCERRADA or
\* SEM_AVIAO_FALHOU
C3_SemReservaNadaMuda ==
  [][\A a \in Avioes :
       PassoReserva(a) /\ pc'[a] # "sw_torre" =>
         /\ UNCHANGED gDisp
         /\ has_pista'[a] = has_pista[a]
         /\ has_portao'[a] = has_portao[a]
         /\ has_torre'[a] = has_torre[a]]_vars

\* reservar_recursos returned SEM_TIMEOUT to one aircraft while the other one
\* holds a reservation
C3_Witness ==
  \E a, b \in Avioes :
    /\ pc[a] = "marca_falha" /\ ~has_pista[a] /\ ~has_portao[a] /\ ~has_torre[a]
    /\ pc[b] = "soltar" /\ torres_disp = 0

\* an International that registered in aguardar_prioridade and did not yet
\* call liberar_prioridade
Contendendo(b) ==
  /\ tipo[b] = "INTERNACIONAL"
  /\ pc[b] \in {"ag_wait", "pos_ag", "rs_loop", "rs_chk", "marca_falha",
                "sw_torre", "sw_portao", "sw_pista", "soltar", "ocupa_portao"}

\* C4: no reservation is granted to a Domestic that is not in critical alert
\* while an International is contending
C4_DomesticoCede ==
  [][\A a \in Avioes :
       (pc[a] = "rs_chk" /\ pc'[a] = "sw_torre"
          /\ tipo[a] = "DOMESTICO" /\ ~em_alerta_critico[a])
       => ~\E b \in Avioes : Contendendo(b)]_vars

\* C5: at each check of an aircraft in critical alert the reservation is
\* granted exactly when the three counters cover its need, whatever its class
\* and whatever esperando_internacional
C5_CriticoSoDisponibilidade ==
  [][\A a \in Avioes :
       (pc[a] = "rs_chk" /\ pc'[a] # "rs_chk" /\ em_alerta_critico[a])
       => (pc'[a] = "sw_torre" <=> Cobre(a))]_vars

\* a Domestic in critical alert holds a fresh reservation while an
\* International is registered
C5_Witness ==
  \E a \in Avioes :
    /\ tipo[a] = "DOMESTICO" /\ em_alerta_critico[a] /\ pc[a] = "sw_torre"
    /\ esperando_internacional > 0

\* C6: once status_final is FALHA, STARVATION or DEADLOCK the worker is granted
\* no reservation, takes no semaphore unit and starts no phase
C6_TerminalNaoAvanca ==
  [][\A a \in Avioes :
       status_final[a] \in Terminais =>
         /\ ~(pc[a] = "rs_chk" /\ pc'[a] = "sw_torre")
         /\ (has_pista'[a] => has_pista[a])
         /\ (has_portao'[a] => has_portao[a])
         /\ (has_torre'[a] => has_torre[a])
         /\ inicio'[a] = inicio[a]]_vars

\* C7: a status of FALHA, STARVATION or DEADLOCK is never changed by any step
C7_TerminalAbsorvente ==
  [][\A a \in Avioes :
       status_final[a] \in Terminais => status_final'[a] = status_final[a]]_vars

\* C8: in the final report an aircraft is SUCESSO only if it finished pouso,
\* desembarque and decolagem
C8_SucessoSoCompleto ==
  m_pc = "relatorio" =>
    \A a \in Avioes :
      (a <= criados /\ status_final[a] = "SUCESSO") => \A f \in Fases : fim[a][f]

Bit(b) == IF b THEN 1 ELSE 0

\* C9: when a sem_wait fails after the reservation was granted, the phase
\* returns with every unit it had taken posted back, the held flags cleared,
\* each counter credited by the need of the reservation and the aircraft
\* unregistered from its queue
C9_RollbackCompleto ==
  [][\A a \in Avioes :
       (pc[a] \in EmAquisicao /\ pc'[a] = "terminado") =>
         /\ pistas' = pistas + Bit(has_pista[a])
         /\ portoes' = portoes + Bit(has_portao[a])
         /\ torres' = torres + Bit(has_torre[a])
         /\ ~has_pista'[a] /\ ~has_portao'[a] /\ ~has_torre'[a]
         /\ pistas_disp' = pistas_disp + need[a].pista
         /\ portoes_disp' = portoes_disp + need[a].portao
         /\ torres_disp' = torres_disp + need[a].torre
         /\ esperando_internacional' = EspIntApos(tipo[a])
         /\ esperando_domestico' = EspDomApos(tipo[a])]_vars

\* decolagem failed on the runway after the tower and the gate were taken:
\* the aircraft left with -1, nothing held and the pool whole again
C9_Witness ==
  \E a \in Avioes :
    /\ pc[a] = "terminado" /\ ret[a] = "-1"
    /\ inicio[a]["decolagem"] /\ ~fim[a]["decolagem"]
    /\ status_final[a] \notin {"FALHA", "STARVATION"}
    /\ torres_disp = N_TORRES /\ portoes_disp = N_PORTOES /\ pistas_disp = N_PISTAS
    /\ \A b \in Avioes : b # a => pc[b] = "nao_criado"

\* C10, on So_restrito.c: at the end of desembarque the gate is never posted
\* while the aircraft still holds the tower slot
C10_TorreAntesDoPortao ==
  [][\A a \in Avioes :
       (/\ r_pc[a] \in {"libera", "ocupa"} /\ r_fase[a] = "desembarque"
        /\ \E k \in DOMAIN r_held[a] : r_held[a][k] = "portao"
        /\ \A k \in DOMAIN r_held'[a] : r_held'[a][k] # "portao")
       => \A k \in DOMAIN r_held[a] : r_held[a][k] # "torre"]_vars

\* the contending count of the class of aircraft a
EsperandoDe(a) ==
  IF tipo[a] = "INTERNACIONAL" THEN esperando_internacional ELSE esperando_domestico

\* C11: when reservar_recursos returned SEM_TIMEOUT the phase sets the status
\* to FALHA, takes exactly one from the contending count of the aircraft's
\* class, returns a failure value, and the worker starts no later phase
C11_TimeoutFalha ==
  [][\A a \in Avioes :
       /\ (pc[a] = "marca_falha" /\ pc'[a] # pc[a]) =>
            /\ status_final'[a] = "FALHA"
            /\ EsperandoDe(a)' = EsperandoDe(a) - 1
            /\ ret'[a] = "-1" /\ pc'[a] = "terminado"
       /\ (pc[a] = "terminado" /\ ret[a] = "-1") =>
            (pc'[a] = "terminado" /\ inicio'[a] = inicio[a])]_vars

\* the step in which aircraft a enters aguardar_prioridade and evaluates the
\* loop condition for the first time
EntraNaFila(a) == pc[a] = "ag_entrar" /\ pc'[a] # pc[a]

\* C12 as stated: the arbiter makes the aircraft wait exactly when it is
\* Domestic, not in critical alert, and the International count is > 0
C12_SoDomesticoEspera ==
  [][\A a \in Avioes :
       EntraNaFila(a) =>
         (pc'[a] = "ag_wait" <=>
            /\ tipo[a] = "DOMESTICO"
            /\ ~em_alerta_critico'[a]
            /\ esperando_internacional' > 0)]_vars

\* the loop condition of aguardar_prioridade for aircraft a when the
\* International count is ei: other Internationals are registered (any
\* International, for a Domestic), the simulation is active, and the aircraft
\* has neither failed nor been alerted
Segura(a, ei) ==
  /\ ei > (IF tipo[a] = "INTERNACIONAL" THEN 1 ELSE 0)
  /\ simulacao_ativa
  /\ status_final'[a] \notin {"FALHA", "STARVATION"}
  /\ ~em_alerta_critico'[a]

\* C12 amended: an aircraft of either class is held in the wait loop of
\* aguardar_prioridade exactly while the simulation is active, it has not
\* failed, it is not in critical alert, and the International count is > 0
\* for a Domestic or > 1 (another International besides itself) for an
\* International
C12_EsperaPorClasse ==
  [][\A a \in Avioes :
       /\ EntraNaFila(a) =>
            (pc'[a] = "ag_wait" <=>
               Segura(a, IF tipo[a] = "INTERNACIONAL"
                         THEN esperando_internacional + 1
                         ELSE esperando_internacional))
       /\ (pc[a] = "ag_wait" /\ pc'[a] = "pos_ag") =>
            ~Segura(a, esperando_internacional)
       /\ (pc[a] = "ag_wait" /\ pc'[a] = "ag_wait"
             /\ status_final'[a] # status_final[a]) =>
            Segura(a, esperando_internacional)]_vars

\* an International waits in the loop behind another International that holds
\* its reservation, and a Domestic that entered with no International
\* registered did not wait
C12_Witness ==
  \E a, b \in Avioes :
    /\ tipo[a] = "INTERNACIONAL" /\ pc[a] = "ag_wait"
    /\ tipo[b] = "INTERNACIONAL" /\ pc[b] = "sw_torre"
    /\ esperando_internacional = 2

\* the decision step of reservar_recursos refuses aircraft a although the
\* three counters cover its need
RecusadoComRecursos(a) ==
  pc[a] = "rs_chk" /\ pc'[a] # pc[a] /\ Cobre(a) /\ pc'[a] # "sw_torre"

Ref_StatusInicial == "PENDENTE"

\* state after memset, inicializarRecursos and the pthread_create of the
\* monitor: PENDENTE is the zero of the enum
InitRefatorado ==
  /\ InitMutex
  /\ criados = 0 /\ m_pc = "criando" /\ simulacao_ativa = TRUE
  /\ tipo = [a \in Avioes |-> "DOMESTICO"]
  /\ pc = [a \in Avioes |-> "nao_criado"]
  /\ fase = [a \in Avioes |-> "nenhuma"]
  /\ status_final = [a \in Avioes |-> Ref_StatusInicial]
  /\ em_alerta_critico = [a \in Avioes |-> FALSE]
  /\ alertou = [a \in Avioes |-> FALSE]
  /\ has_pista = [a \in Avioes |-> FALSE]
  /\ has_portao = [a \in Avioes |-> FALSE]
  /\ has_torre = [a \in Avioes |-> FALSE]
  /\ inicio = [a \in Avioes |-> NenhumaFase]
  /\ fim = [a \in Avioes |-> NenhumaFase]
  /\ need = [a \in Avioes |-> NeedZero]
  /\ ret = [a \in Avioes |-> "nenhum"]
  /\ pistas_disp = N_PISTAS /\ portoes_disp = N_PORTOES /\ torres_disp = N_TORRES
  /\ pistas = N_PISTAS /\ portoes = N_PORTOES /\ torres = N_TORRES
  /\ esperando_internacional = 0 /\ esperando_domestico = 0
  /\ reserva_mutex = 0
  /\ deadlock_count = 0 /\ acidentes_count = 0
  /\ mon_pc = "dormindo" /\ mon_detectados = 0 /\ mon_lido = 0

\* main: record initialisation and pthread_create; aviao_thread enters pouso
Ref_Criar(t) ==
  /\ m_pc = "criando" /\ criados < MaxAvioes
  /\ LET a == criados + 1 IN
       /\ tipo' = [tipo EXCEPT ![a] = t]
       /\ status_final' = [status_final EXCEPT ![a] = Ref_StatusInicial]
       /\ em_alerta_critico' = [em_alerta_critico EXCEPT ![a] = FALSE]
       /\ inicio' = [inicio EXCEPT ![a] = NenhumaFase]
       /\ fim' = [fim EXCEPT ![a] = NenhumaFase]
       /\ has_pista' = [has_pista EXCEPT ![a] = FALSE]
       /\ has_portao' = [has_portao EXCEPT ![a] = FALSE]
       /\ has_torre' = [has_torre EXCEPT ![a] = FALSE]
       /\ fase' = [fase EXCEPT ![a] = "pouso"]
       /\ pc' = [pc EXCEPT ![a] = "inicio_fase"]
  /\ criados' = criados + 1
  /\ UNCHANGED <<varsRestrito, m_pc, simulacao_ativa, gMon, gSem, gDisp, gFila,
                 deadlock_count, acidentes_count, alertou, need, ret, reserva_mutex>>

\* the status the alert branch of verificar_starvation leaves
Ref_StatusAlerta(st) == IF st = "PENDENTE" THEN "ALERTA_CRITICO" ELSE st

\* variant: the alert branch without its upper limit
Ref_NaJanelaDeAlerta_semTeto(espera) == espera >= ALERTA_CRITICO_SECS

\* the window of the alert branch
Ref_NaJanelaDeAlerta(espera) ==
  espera >= ALERTA_CRITICO_SECS /\ espera < TEMPO_MAXIMO_ESPERA

\* verificar_starvation: status, alert flag and the two counters after the
\* call
Ref_VerificarStarvation(a, espera) ==
  LET igual == [st |-> status_final[a], al |-> em_alerta_critico[a],
                ac |-> acidentes_count, dl |-> deadlock_count]
  IN IF status_final[a] \in {"FALHA", "STARVATION", "DEADLOCK"} THEN igual
     ELSE IF Ref_NaJanelaDeAlerta(espera) /\ ~em_alerta_critico[a]
          THEN [igual EXCEPT !.st = Ref_StatusAlerta(@), !.al = TRUE]
     ELSE IF espera >= TEMPO_MAXIMO_ESPERA
          THEN IF tipo[a] = "DOMESTICO"
               THEN [igual EXCEPT !.st = "STARVATION", !.ac = acidentes_count + 1]
               ELSE [igual EXCEPT !.st = "DEADLOCK", !.dl = deadlock_count + 1]
     ELSE igual

\* the test of checa_falha
Ref_Falhou(st) == st \in {"FALHA", "STARVATION", "DEADLOCK"}

Ref_ChecaFalha(a) ==
  \E espera \in TemposEspera :
    LET r == Ref_VerificarStarvation(a, espera) IN
      /\ status_final' = [status_final EXCEPT ![a] = r.st]
      /\ em_alerta_critico' = [em_alerta_critico EXCEPT ![a] = r.al]
      /\ alertou' = [alertou EXCEPT ![a] = @ \/ r.al]
      /\ acidentes_count' = r.ac
      /\ deadlock_count' = r.dl

\* pouso / desembarque / decolagem: first checa_falha of the phase
Ref_InicioFase(a) ==
  /\ pc[a] = "inicio_fase"
  /\ Ref_ChecaFalha(a)
  /\ IF Ref_Falhou(status_final'[a])
     THEN Encerra(a, "-1")
     ELSE pc' = [pc EXCEPT ![a] = "ag_entrar"] /\ UNCHANGED <<fase, need, ret>>
  /\ UNCHANGED <<varsRestrito, gMain, gMon, gSem, gDisp, gHas, gFila, gFase, reserva_mutex>>

\* aguardar_prioridade: one evaluation of the while condition under
\* fila_mutex. checa_falha is called only when the first two conjuncts
\* hold; nothing is undone when the loop is left
Ref_AguardarPasso(a, ei) ==
  /\ IF CondicaoFila(a, ei) THEN Ref_ChecaFalha(a) ELSE UNCHANGED gStat
  /\ LET fica == /\ CondicaoFila(a, ei)
                 /\ ~Ref_Falhou(status_final'[a])
                 /\ ~em_alerta_critico'[a]
     IN pc' = [pc EXCEPT ![a] = IF fica THEN "ag_wait" ELSE "pos_ag"]

\* entry: the registration and the first evaluation
Ref_AguardarEntrar(a) ==
  /\ pc[a] = "ag_entrar"
  /\ IF tipo[a] = "INTERNACIONAL"
     THEN /\ Ref_AguardarPasso(a, esperando_internacional + 1)
          /\ esperando_internacional' = esperando_internacional + 1
          /\ UNCHANGED esperando_domestico
     ELSE /\ Ref_AguardarPasso(a, esperando_internacional)
          /\ esperando_domestico' = esperando_domestico + 1
          /\ UNCHANGED esperando_internacional
  /\ UNCHANGED <<varsRestrito, gMain, gMon, gSem, gDisp, gHas, gFase, gLoc, reserva_mutex>>

\* pthread_cond_timedwait returns and the condition is evaluated again
Ref_AguardarLoop(a) ==
  /\ pc[a] = "ag_wait"
  /\ Ref_AguardarPasso(a, esperando_internacional)
  /\ UNCHANGED <<varsRestrito, gMain, gMon, gSem, gDisp, gHas, gFila, gFase, gLoc,
                 reserva_mutex>>

\* second checa_falha of the phase: on failure liberar_prioridade and
\* return -1; otherwise inicio_X and the need_* locals
Ref_PosAguardar(a) ==
  /\ pc[a] = "pos_ag"
  /\ Ref_ChecaFalha(a)
  /\ IF Ref_Falhou(status_final'[a])
     THEN /\ LiberarPrioridade(tipo[a])
          /\ Encerra(a, "-1")
          /\ UNCHANGED gFase
     ELSE /\ inicio' = [inicio EXCEPT ![a][fase[a]] = TRUE]
          /\ need' = [need EXCEPT ![a] = NeedDe(a, fase[a])]
          /\ pc' = [pc EXCEPT ![a] = "rs_loop"]
          /\ UNCHANGED <<fim, fase, ret, gFila>>
  /\ UNCHANGED <<varsRestrito, gMain, gMon, gSem, gDisp, gHas, reserva_mutex>>

\* reservar_recursos, top of the while(1): the simulacao_ativa test and
\* checa_falha; on SEM_SIM_ENCERRADA and SEM_AVIAO_FALHOU the phase calls
\* liberar_prioridade and returns -1
Ref_RsLoop(a) ==
  /\ pc[a] = "rs_loop" /\ reserva_mutex = 0
  /\ IF simulacao_ativa THEN Ref_ChecaFalha(a) ELSE UNCHANGED gStat
  /\ IF ~simulacao_ativa \/ Ref_Falhou(status_final'[a])
     THEN /\ LiberarPrioridade(tipo[a])
          /\ Encerra(a, "-1")
          /\ UNCHANGED reserva_mutex
     ELSE /\ reserva_mutex' = a
          /\ pc' = [pc EXCEPT ![a] = "rs_chk"]
          /\ UNCHANGED <<gFila, gLoc>>
  /\ UNCHANGED <<varsRestrito, gMain, gMon, gSem, gDisp, gHas, gFase>>

\* end of a phase: fim_X, ultimo_tempo_espera, em_alerta_critico = 0 (the
\* status is left as it is), liberar_prioridade, return 0
Ref_FimFase(a) ==
  /\ fim' = [fim EXCEPT ![a][fase[a]] = TRUE]
  /\ em_alerta_critico' = [em_alerta_critico EXCEPT ![a] = FALSE]
  /\ LiberarPrioridade(tipo[a])
  /\ need' = [need EXCEPT ![a] = NeedZero]
  /\ ret' = [ret EXCEPT ![a] = "0"]
  /\ pc' = [pc EXCEPT ![a] = "pos_fase"]
  /\ UNCHANGED <<inicio, fase, status_final, deadlock_count, acidentes_count, alertou>>

\* pouso and decolagem after the sleep: the posts, liberar_reserva and the
\* end of the phase
Ref_Soltar(a) ==
  /\ pc[a] = "soltar" /\ fase[a] # "desembarque"
  /\ pistas' = IF SoltaPista(a) THEN pistas + 1 ELSE pistas
  /\ portoes' = IF SoltaPortao(a) THEN portoes + 1 ELSE portoes
  /\ torres' = IF SoltaTorre(a) THEN torres + 1 ELSE torres
  /\ has_pista' = [has_pista EXCEPT ![a] = IF SoltaPista(a) THEN FALSE ELSE @]
  /\ has_portao' = [has_portao EXCEPT ![a] = IF SoltaPortao(a) THEN FALSE ELSE @]
  /\ has_torre' = [has_torre EXCEPT ![a] = IF SoltaTorre(a) THEN FALSE ELSE @]
  /\ LiberarReserva(need[a].pista, need[a].portao, need[a].torre)
  /\ Ref_FimFase(a)
  /\ UNCHANGED <<varsRestrito, gMain, gMon>>

\* desembarque: the gate post after the second sleep, liberar_reserva and
\* the end of the phase
Ref_SoltarPortao(a) ==
  /\ pc[a] = "ocupa_portao"
  /\ portoes' = IF has_portao[a] THEN portoes + 1 ELSE portoes
  /\ has_portao' = [has_portao EXCEPT ![a] = FALSE]
  /\ LiberarReserva(0, need[a].portao, 0)
  /\ Ref_FimFase(a)
  /\ UNCHANGED <<varsRestrito, gMain, gMon, pistas, torres, has_pista, has_torre>>

\* the status aviao_thread leaves after the three phases
Ref_StatusFimThread(st) == IF st = "PENDENTE" THEN "SUCESSO" ELSE st

\* aviao_thread: the checa_falha after a phase that returned 0; on failure
\* the thread returns; after decolagem the final status is written
Ref_PosFase(a) ==
  /\ pc[a] = "pos_fase"
  /\ Ref_ChecaFalha(a)
  /\ IF Ref_Falhou(status_final'[a])
     THEN /\ pc' = [pc EXCEPT ![a] = "terminado"]
          /\ fase' = [fase EXCEPT ![a] = "nenhuma"]
     ELSE IF fase[a] = "decolagem"
     THEN /\ pc' = [pc EXCEPT ![a] = "fim_thread"]
          /\ UNCHANGED fase
     ELSE /\ pc' = [pc EXCEPT ![a] = "inicio_fase"]
          /\ fase' = [fase EXCEPT ![a] = ProximaFase(@)]
  /\ UNCHANGED <<varsRestrito, gMain, gMon, gSem, gDisp, gHas, gFila, gFase, need, ret,
                 reserva_mutex>>

\* aviao_thread: if (status_final == PENDENTE) status_final = SUCESSO
Ref_FimThread(a) ==
  /\ pc[a] = "fim_thread"
  /\ status_final' = [status_final EXCEPT ![a] = Ref_StatusFimThread(@)]
  /\ pc' = [pc EXCEPT ![a] = "terminado"]
  /\ fase' = [fase EXCEPT ![a] = "nenhuma"]
  /\ UNCHANGED <<varsRestrito, gMain, gMon, gSem, gDisp, gHas, gFila, gFase, need, ret,
                 em_alerta_critico, alertou, deadlock_count, acidentes_count,
                 reserva_mutex>>

\* monitor_deadlock: sleep, then the sweep and the count under avioes_mutex,
\* then while (simulacao_ativa)
Ref_Monitor ==
  /\ mon_pc = "dormindo"
  /\ \E idades \in [Avioes -> TemposFase] :
       /\ status_final' = [a \in Avioes |->
                             IF Detectado(a, idades[a]) THEN "DEADLOCK"
                             ELSE status_final[a]]
       /\ deadlock_count' =
            deadlock_count + Cardinality({a \in Avioes : Detectado(a, idades[a])})
  /\ mon_pc' = IF simulacao_ativa THEN "dormindo" ELSE "terminado"
  /\ UNCHANGED <<varsRestrito, gMain, gSem, gDisp, gHas, gFila, em_alerta_critico,
                 alertou, acidentes_count, gFase, gLoc, pc, reserva_mutex,
                 mon_detectados, mon_lido>>

NextRefatorado ==
  \/ \E t \in Tipos : Ref_Criar(t)
  \/ \E a \in Avioes : Ref_InicioFase(a)
  \/ \E a \in Avioes : Ref_AguardarEntrar(a)
  \/ \E a \in Avioes : Ref_AguardarLoop(a)
  \/ \E a \in Avioes : Ref_PosAguardar(a)
  \/ \E a \in Avioes : Ref_RsLoop(a)
  \/ \E a \in Avioes, d \in TemposReserva : RsChk(a, d)
  \/ \E a \in Avioes : MarcaFalha(a)
  \/ \E a \in Avioes : SemWait(a)
  \/ \E a \in Avioes : SemWaitFalha(a)
  \/ \E a \in Avioes : Ref_Soltar(a)
  \/ \E a \in Avioes : SoltarTorre(a)
  \/ \E a \in Avioes : Ref_SoltarPortao(a)
  \/ \E a \in Avioes : Ref_PosFase(a)
  \/ \E a \in Avioes : Ref_FimThread(a)
  \/ Ref_Monitor
  \/ MainEncerrar
  \/ MainJoin

Ref_Init == InitRefatorado /\ InitRestrito

SpecRefatorado == Ref_Init /\ [][NextRefatorado]_vars

\* waits on both sides of the two thresholds of verificar_starvation
EsperasLimite ==
  {0, ALERTA_CRITICO_SECS - 1, ALERTA_CRITICO_SECS, TEMPO_MAXIMO_ESPERA - 1,
   TEMPO_MAXIMO_ESPERA, TEMPO_MAXIMO_ESPERA + 1}

\* C14, on So_refatorado_corrigido.c: verificar_starvation raises the alert
\* only for a wait of at least 60 and less than 90 of an aircraft that is not
\* alerted; raising it sets em_alerta_critico and makes the status
\* ALERTA_CRITICO only from PENDENTE, every other status being kept; and no
\* step of the program turns a status other than PENDENTE into ALERTA_CRITICO
C14_AlertaSoDePendente ==
  [][\A a \in Avioes :
       /\ \A e \in EsperasLimite :
            LET r == Ref_VerificarStarvation(a, e)
                levanta == r.al /\ ~em_alerta_critico[a]
            IN /\ levanta => (e >= 60 /\ e < 90)
               /\ levanta => r.st = IF status_final[a] = "PENDENTE"
                                    THEN "ALERTA_CRITICO" ELSE status_final[a]
               /\ (r.st = "ALERTA_CRITICO" /\ status_final[a] # "ALERTA_CRITICO")
                    => (status_final[a] = "PENDENTE" /\ levanta)
       /\ (status_final'[a] = "ALERTA_CRITICO" /\ status_final[a] # "ALERTA_CRITICO")
            => /\ status_final[a] = "PENDENTE"
               /\ em_alerta_critico'[a] /\ ~em_alerta_critico[a]]_vars

\* the alert fired again in desembarque for an aircraft that had been alerted
\* in pouso
C14_Witness ==
  \E a \in Avioes :
    /\ em_alerta_critico[a] /\ status_final[a] = "ALERTA_CRITICO"
    /\ fim[a]["pouso"] /\ fase[a] = "desembarque" /\ pc[a] = "rs_loop"

\* no International is STARVATION and acidentes_count is the number of
\* aircraft whose status is STARVATION
AcidentesSaoQuedas ==
  /\ \A a \in Avioes : tipo[a] = "INTERNACIONAL" => status_final[a] # "STARVATION"
  /\ acidentes_count = Cardinality({a \in Avioes : status_final[a] = "STARVATION"})

\* waits around the limit of the 90 rule
EsperasRegra90 ==
  {TEMPO_MAXIMO_ESPERA - 1, TEMPO_MAXIMO_ESPERA, TEMPO_MAXIMO_ESPERA + 1}

\* what the 90 rule requires of the result r of verificar_starvation for
\* aircraft a after a wait of e
Regra90(r, a, e) ==
  /\ (status_final[a] \notin Terminais /\ e >= 90) =>
       IF tipo[a] = "DOMESTICO"
       THEN /\ r.st = "STARVATION"
            /\ r.ac = acidentes_count + 1 /\ r.dl = deadlock_count
       ELSE /\ r.st = "DEADLOCK"
            /\ r.dl = deadlock_count + 1 /\ r.ac = acidentes_count
  /\ (r.st = "STARVATION" /\ status_final[a] # "STARVATION") =>
       (e >= 90 /\ tipo[a] = "DOMESTICO")

\* C15: when the wait of an aircraft that has not failed reaches 90,
\* verificar_starvation (of either file, taken at each step of the aircraft's
\* worker) makes a Domestic STARVATION and adds one to acidentes_count, and
\* makes an International DEADLOCK and adds one to deadlock_count leaving
\* acidentes_count alone; a status becomes STARVATION in no other way and is
\* never changed afterwards, so no International is STARVATION and
\* acidentes_count is the number of STARVATION aircraft
C15_RegraDos90PorClasse ==
  [][/\ AcidentesSaoQuedas /\ AcidentesSaoQuedas'
     /\ \A a \in Avioes :
          /\ \A e \in (IF pc'[a] # pc[a] THEN EsperasRegra90 ELSE {}) :
               /\ Regra90(VerificarStarvation(a, e), a, e)
               /\ Regra90(Ref_VerificarStarvation(a, e), a, e)
          /\ (status_final'[a] = "STARVATION" /\ status_final[a] # "STARVATION") =>
               /\ tipo[a] = "DOMESTICO"
               /\ acidentes_count' = acidentes_count + 1
               /\ deadlock_count' = deadlock_count
          /\ status_final[a] = "STARVATION" => status_final'[a] = "STARVATION"
          /\ (status_final'[a] = "DEADLOCK" /\ status_final[a] # "DEADLOCK"
                /\ pc'[a] # pc[a]) =>
               /\ tipo[a] = "INTERNACIONAL"
               /\ deadlock_count' = deadlock_count + 1
               /\ acidentes_count' = acidentes_count]_vars

\* the rule fired for one aircraft of each class, neither of which was ever
\* alerted (so the monitor did not reclassify the International)
C15_Witness ==
  \E a, b \in Avioes :
    /\ tipo[a] = "DOMESTICO" /\ status_final[a] = "STARVATION" /\ ~alertou[a]
    /\ tipo[b] = "INTERNACIONAL" /\ status_final[b] = "DEADLOCK" /\ ~alertou[b]
    /\ acidentes_count = 1 /\ deadlock_count = 1
\* aircraft a is inside a phase: some inicio_X set with fim_X unset
EmMeioDeFase(a) ==
  \E f \in Fases : inicio[a][f] /\ ~fim[a][f]

\* C16: at every monitor sweep, every created aircraft with no terminal status
\* that is inside a phase running for more than LIMITE_DEADLOCK is taken by the
\* sweep as deadlocked (reclassified DEADLOCK and counted in detectados),
\* whether or not it has ever been in critical alert
C16_SweepReclassificaTodos ==
  [][(mon_pc = "dormindo" /\ mon_pc' = "somar") =>
       \A a \in Avioes : \A idade \in TemposFase :
         (/\ a <= criados /\ status_final[a] \notin Terminais
          /\ EmMeioDeFase(a) /\ idade > LIMITE_DEADLOCK) =>
           Detectado(a, idade)]_vars
\* a step in which the starvation check of aircraft a had an effect: it raised
\* the critical alert, set one of the statuses it writes, or counted
ChecagemAgiu(a) ==
  /\ pc'[a] # pc[a]
  /\ \/ em_alerta_critico'[a] /\ ~em_alerta_critico[a]
     \/ /\ status_final'[a] # status_final[a]
        /\ status_final'[a] \in {"ALERTA_CRITICO", "STARVATION", "DEADLOCK"}
     \/ acidentes_count' # acidentes_count
     \/ deadlock_count' # deadlock_count

\* a step of the monitor: of So-final.c (mon_pc moves) or of the single-step
\* monitor of So_refatorado_corrigido.c (a status changes, no worker moves)
PassoDoMonitor ==
  mon_pc' # mon_pc \/ (pc' = pc /\ status_final' # status_final)

TodosTerminados ==
  criados >= 1 /\ \A a \in Avioes : a <= criados => pc[a] = "terminado"

\* C18: once every worker has terminated, whatever happened to the aircraft
\* (reservation or semaphore timeout, reclassification by the monitor or by the
\* starvation check, shutdown), the three gate counters are back at the
\* capacities and no aircraft has a has_* flag set
C18_NadaFicaParaTras ==
  TodosTerminados =>
    /\ pistas_disp = N_PISTAS /\ portoes_disp = N_PORTOES /\ torres_disp = N_TORRES
    /\ \A a \in Avioes : ~has_pista[a] /\ ~has_portao[a] /\ ~has_torre[a]

\* all the workers are over: one ended FALHA, another was reclassified
\* DEADLOCK on its way
C18_Witness ==
  /\ TodosTerminados /\ criados = MaxAvioes
  /\ \E a, b \in Avioes :
       status_final[a] = "FALHA" /\ status_final[b] = "DEADLOCK"
\* C19: in So_refatorado_corrigido.c the end of a phase of an alerted aircraft
\* clears em_alerta_critico and takes the status out of ALERTA_CRITICO, and a
\* worker that has terminated after completing its three phases with no
\* terminal failure has status SUCESSO
C19_AlertaTransitorio ==
  [][\A a \in Avioes :
       /\ (pc[a] \in {"soltar", "ocupa_portao"} /\ pc'[a] = "pos_fase"
             /\ status_final[a] = "ALERTA_CRITICO") =>
            (~em_alerta_critico'[a] /\ status_final'[a] # "ALERTA_CRITICO")
       /\ (pc'[a] = "terminado" /\ (\A f \in Fases : fim'[a][f])
             /\ status_final'[a] \notin Terminais) =>
            status_final'[a] = "SUCESSO"]_vars
\* how far a worker at position p is from its end once simulacao_ativa is 0:
\* a phase that holds its reservation runs to its end and the next phase
\* leaves at the top of reservar_recursos
Posicao(p) ==
  CASE p = "rs_chk" -> 12
    [] p = "sw_torre" -> 11
    [] p = "sw_portao" -> 10
    [] p = "sw_pista" -> 9
    [] p = "soltar" -> 8
    [] p = "ocupa_portao" -> 7
    [] p = "inicio_fase" -> 6
    [] p = "ag_entrar" -> 5
    [] p = "ag_wait" -> 4
    [] p = "pos_ag" -> 3
    [] p = "rs_loop" -> 2
    [] p = "marca_falha" -> 1
    [] OTHER -> 0

\* the steps left to the monitor and to main
PosicaoMonitor == IF mon_pc = "dormindo" THEN 2 ELSE IF mon_pc = "somar" THEN 1 ELSE 0

PosicaoMain == IF m_pc = "juntando" THEN 1 ELSE 0

Medida ==
  SomaAte([a \in Avioes |-> Posicao(pc[a])], MaxAvioes) + PosicaoMonitor + PosicaoMain

\* no thread is blocked for good: every worker that has not terminated can
\* take a step, or waits for reserva_mutex whose holder can; the monitor can
\* take a step until it has terminated; main can pass the joins once they have
Prontos ==
  /\ \A a \in Avioes :
       (a <= criados /\ pc[a] # "terminado") =>
         \/ ENABLED <<PassoDoAviao(a)>>_vars
         \/ /\ reserva_mutex \notin {0, a}
            /\ pc[reserva_mutex] = "rs_chk"
            /\ ENABLED <<PassoDoAviao(reserva_mutex)>>_vars
  /\ mon_pc # "terminado" => ENABLED <<PassoDoMonitorFinal>>_vars
  /\ (/\ m_pc = "juntando" /\ mon_pc = "terminado"
      /\ \A a \in Avioes : a <= criados => pc[a] = "terminado") =>
       ENABLED <<MainJoin>>_vars

\* C20: once main has set simulacao_ativa = 0 and made its broadcasts and
\* posts, every worker and the monitor terminate and main passes both joins,
\* whatever each thread was doing. Stated as the two facts that give it under
\* the fair scheduling of SpecJusto: no thread is ever blocked for good, and
\* every step of every thread brings the program strictly closer to the end
\* (the measure decreases, and reserva_mutex, once free, is not taken again
\* by a waiting loop)
C20_EncerramentoTermina ==
  /\ [](~simulacao_ativa => Prontos)
  /\ [][~simulacao_ativa =>
          /\ Medida' < Medida
          /\ reserva_mutex = 0 => reserva_mutex' = 0]_vars

\* the same under SpecJusto as a temporal formula: shutdown leads to the
\* state where every worker and the monitor have terminated and main is past
\* the joins
EncerramentoLevaAoFim ==
  (~simulacao_ativa) ~>
    (/\ \A a \in Avioes : a <= criados => pc[a] = "terminado"
     /\ mon_pc = "terminado"
     /\ m_pc = "relatorio")

\* main is past the joins after a shutdown that found one worker waiting for
\* its reservation and sent it out with SEM_SIM_ENCERRADA
C20_Witness ==
  /\ m_pc = "relatorio" /\ criados = MaxAvioes
  /\ \E a \in Avioes : ret[a] = "SEM_SIM_ENCERRADA"
\* the semaphore a worker at an acquisition position is about to wait on
SemaforoDe(p) ==
  IF p = "sw_torre" THEN torres ELSE IF p = "sw_portao" THEN portoes ELSE pistas

\* C21: whenever a worker whose reservation was granted is about to call
\* sem_wait on torres, portoes or pistas, the value of that semaphore is at
\* least 1: no aircraft blocks on a physical semaphore, so none blocks on one
\* while holding another and no circular wait exists
C21_SemaforoNuncaBloqueia ==
  \A a \in Avioes :
    (pc[a] \in EmAquisicao /\ ~JaTem(a)) => SemaforoDe(pc[a]) >= 1

\* an aircraft holds the tower and is about to wait on the runway while the
\* other one still occupies the gate
C21_Witness ==
  \E a, b \in Avioes :
    /\ a # b
    /\ pc[a] = "sw_pista" /\ has_torre[a] /\ ~has_pista[a]
    /\ pc[b] = "ocupa_portao" /\ has_portao[b]
\* aircraft a is held in the wait loop of aguardar_prioridade and no passage
\* of time gets it out: whatever wait its next checa_falha reads, the loop
\* condition holds again
Preso(a) ==
  /\ pc[a] = "ag_wait"
  /\ \A e \in TemposEspera :
       LET r == VerificarStarvation(a, e) IN
         CondicaoFila(a, esperando_internacional) /\ ~Falhou(r.st) /\ ~r.al

\* C22: an aircraft inside a phase completes it or fails within 90 time units
\* of entering it, and none stays in a phase forever: wherever it waits, its
\* own clock ends the wait (the alert at 60 lets it through, the limit of 90
\* makes it fail), so no aircraft is held in the priority wait with no wait
\* time that releases it
C22_FaseTemFim ==
  \A a \in Avioes : ~Preso(a)

\* two Internationals hold each other in the priority wait
C22_PresosUmPeloOutro ==
  \E a, b \in Avioes : a # b /\ Preso(a) /\ Preso(b)
\* scenario A: the two aircraft exist, one of each class (the capacities of
\* the model are 1 runway, 1 gate, 1 tower slot)
CenarioA ==
  criados = 2 /\ tipo[1] # tipo[2]

\* statuses left by a timeout, an alert or a reclassification
MarcasDeFalha == {"FALHA", "ALERTA_CRITICO", "STARVATION", "DEADLOCK"}

\* International b is registered for its landing and its reservation is not
\* granted yet
DisputaPouso(b) ==
  /\ Contendendo(b) /\ fase[b] = "pouso"
  /\ pc[b] \in {"ag_wait", "pos_ag", "rs_loop", "rs_chk"}

\* C23: in scenario A with no induced fault (no failed sem_wait, no timeout,
\* alert or reclassification) a worker of So_refatorado_corrigido.c that
\* terminates leaves its aircraft SUCESSO, and the landing reservation of the
\* Domestic is not granted while the International contends for its own
C23_CenarioASucesso ==
  [][CenarioA =>
       \A a \in Avioes :
         /\ (/\ pc[a] # "terminado" /\ pc'[a] = "terminado"
             /\ pc[a] \notin EmAquisicao
             /\ status_final'[a] \notin MarcasDeFalha) =>
              status_final'[a] = "SUCESSO"
         /\ (/\ pc[a] = "rs_chk" /\ pc'[a] = "sw_torre" /\ fase[a] = "pouso"
             /\ tipo[a] = "DOMESTICO" /\ ~em_alerta_critico[a]) =>
              ~\E b \in Avioes : DisputaPouso(b)]_vars
\* ---- So_refatorado_corrigido.c started with runway capacity 0 (argv[1] = 0):
\* inicializarRecursos gives pistas and pistas_disp the value 0
SemPista_Init ==
  /\ InitMutex
  /\ criados = 0 /\ m_pc = "criando" /\ simulacao_ativa = TRUE
  /\ tipo = [a \in Avioes |-> "DOMESTICO"]
  /\ pc = [a \in Avioes |-> "nao_criado"]
  /\ fase = [a \in Avioes |-> "nenhuma"]
  /\ status_final = [a \in Avioes |-> Ref_StatusInicial]
  /\ em_alerta_critico = [a \in Avioes |-> FALSE]
  /\ alertou = [a \in Avioes |-> FALSE]
  /\ has_pista = [a \in Avioes |-> FALSE]
  /\ has_portao = [a \in Avioes |-> FALSE]
  /\ has_torre = [a \in Avioes |-> FALSE]
  /\ inicio = [a \in Avioes |-> NenhumaFase]
  /\ fim = [a \in Avioes |-> NenhumaFase]
  /\ need = [a \in Avioes |-> NeedZero]
  /\ ret = [a \in Avioes |-> "nenhum"]
  /\ pistas_disp = 0 /\ portoes_disp = N_PORTOES /\ torres_disp = N_TORRES
  /\ pistas = 0 /\ portoes = N_PORTOES /\ torres = N_TORRES
  /\ esperando_internacional = 0 /\ esperando_domestico = 0
  /\ reserva_mutex = 0
  /\ deadlock_count = 0 /\ acidentes_count = 0
  /\ mon_pc = "dormindo" /\ mon_detectados = 0 /\ mon_lido = 0
  /\ InitRestrito

\* the steps of the program that a worker can take before its landing
\* reservation is granted, and those of the monitor and of main. The other
\* worker steps start at the positions of PosReserva, which SemPistaSoReserva
\* shows unreachable
SemPista_Next ==
  \/ \E t \in Tipos : Ref_Criar(t)
  \/ \E a \in Avioes : Ref_InicioFase(a)
  \/ \E a \in Avioes : Ref_AguardarEntrar(a)
  \/ \E a \in Avioes : Ref_AguardarLoop(a)
  \/ \E a \in Avioes : Ref_PosAguardar(a)
  \/ \E a \in Avioes : Ref_RsLoop(a)
  \/ \E a \in Avioes, d \in TemposReserva : RsChk(a, d)
  \/ \E a \in Avioes : MarcaFalha(a)
  \/ Ref_Monitor
  \/ MainEncerrar
  \/ MainJoin

SpecSemPista == SemPista_Init /\ [][SemPista_Next]_vars

\* positions of a worker whose reservation was granted
PosReserva ==
  {"sw_torre", "sw_portao", "sw_pista", "soltar", "ocupa_portao", "pos_fase",
   "fim_thread"}

\* with no runway no landing reservation is granted: no worker gets past
\* reservar_recursos, and the counters stay as initialised
SemPistaSoReserva ==
  /\ \A a \in Avioes : pc[a] \notin PosReserva /\ fase[a] \in {"nenhuma", "pouso"}
  /\ pistas_disp = 0

\* C24: with runway capacity 0 no landing reservation is granted, every
\* worker that terminates leaves its aircraft FALHA, by the SEM_TIMEOUT of its
\* landing reservation, and no aircraft is ever SUCESSO
C24_SemPistaTodosFalham ==
  /\ SemPistaSoReserva
  /\ \A a \in Avioes :
       /\ status_final[a] # "SUCESSO"
       /\ pc[a] = "terminado" => status_final[a] = "FALHA"
\* positions of a worker inside the body of a phase (the sleeps)
Corpo == {"soltar", "ocupa_portao"}

\* the only aircraft of the run is stalled in the body of a phase and its
\* status changes
ParadoMudaStatus(a) ==
  /\ criados = 1 /\ a = 1
  /\ pc[a] \in Corpo /\ pc'[a] = pc[a]
  /\ status_final'[a] # status_final[a]

\* C25 as claimed: a single aircraft stalled in the body of a phase becomes
\* STARVATION or DEADLOCK only from ALERTA_CRITICO, a Domestic STARVATION and
\* an International DEADLOCK
C25_SequenciaPorClasse ==
  [][\A a \in Avioes :
       ParadoMudaStatus(a) =>
         /\ status_final'[a] \in {"ALERTA_CRITICO", "STARVATION", "DEADLOCK"}
         /\ status_final'[a] = "ALERTA_CRITICO" => status_final[a] = "PENDENTE"
         /\ status_final'[a] \in {"STARVATION", "DEADLOCK"} =>
              /\ status_final[a] = "ALERTA_CRITICO"
              /\ status_final'[a] =
                   IF tipo[a] = "DOMESTICO" THEN "STARVATION" ELSE "DEADLOCK"]_vars

\* C25 as the code has it: the starvation check does not run during the body
\* of a phase, so the only change of status of a stalled aircraft is the
\* monitor's. A sweep that finds the phase older than LIMITE_DEADLOCK takes
\* every stalled aircraft that is PENDENTE or ALERTA_CRITICO, and makes it
\* DEADLOCK whatever its class, counting it and leaving its alert flag alone
C25_ParadoViraDeadlock ==
  [][\A a \in Avioes :
       /\ (pc[a] \in Corpo /\ status_final[a] \in {"PENDENTE", "ALERTA_CRITICO"}) =>
            Detectado(a, LIMITE_DEADLOCK + 1) /\ ~Detectado(a, LIMITE_DEADLOCK)
       /\ ParadoMudaStatus(a) =>
            /\ status_final[a] \in {"PENDENTE", "ALERTA_CRITICO"}
            /\ status_final'[a] = "DEADLOCK"
            /\ deadlock_count' = deadlock_count + 1
            /\ em_alerta_critico'[a] = em_alerta_critico[a]]_vars

\* a single Domestic, never alerted, was made DEADLOCK during the body of its
\* landing
C25_Witness ==
  /\ criados = 1 /\ tipo[1] = "DOMESTICO" /\ pc[1] = "soltar" /\ fase[1] = "pouso"
  /\ status_final[1] = "DEADLOCK" /\ ~alertou[1] /\ deadlock_count = 1
\* the three gate counters as one record, and the change of a step
Contadores ==
  [pista |-> pistas_disp, portao |-> portoes_disp, torre |-> torres_disp]

Variacao ==
  [pista |-> pistas_disp' - pistas_disp, portao |-> portoes_disp' - portoes_disp,
   torre |-> torres_disp' - torres_disp]

\* positions of a worker between the grant of its reservation and the last
\* liberar_reserva of the phase
ComReserva == EmAquisicao \cup Corpo

\* C26: for each phase that runs to completion, reservar_recursos debits the
\* need_* of the phase, the need_* stay as they are until the phase releases,
\* and liberar_reserva credits them back in full: in one call for pouso and
\* decolagem, in two partial calls (tower, then gate; the runway need is 0)
\* for desembarque
C26_IdaEVolta ==
  [][\A a \in Avioes :
       /\ (pc[a] = "rs_chk" /\ pc'[a] = "sw_torre") =>
            Variacao = [pista |-> -need[a].pista, portao |-> -need[a].portao,
                        torre |-> -need[a].torre]
       /\ (pc[a] \in ComReserva /\ pc'[a] \in ComReserva) =>
            need'[a] = need[a] /\ fase'[a] = fase[a]
       /\ (pc[a] = "soltar" /\ pc'[a] # pc[a] /\ fase[a] # "desembarque") =>
            Variacao = need[a]
       /\ (pc[a] = "soltar" /\ pc'[a] # pc[a] /\ fase[a] = "desembarque") =>
            /\ need[a].pista = 0 /\ pc'[a] = "ocupa_portao"
            /\ Variacao = [pista |-> 0, portao |-> 0, torre |-> need[a].torre]
       /\ (pc[a] = "ocupa_portao" /\ pc'[a] # pc[a]) =>
            /\ fase[a] = "desembarque"
            /\ Variacao = [pista |-> 0, portao |-> need[a].portao, torre |-> 0]]_vars

\* an aircraft that completed its three phases has terminated and the
\* counters are back at the capacities
C26_Witness ==
  \E a \in Avioes :
    /\ pc[a] = "terminado" /\ \A f \in Fases : fim[a][f]
    /\ Contadores = [pista |-> N_PISTAS, portao |-> N_PORTOES, torre |-> N_TORRES]
(***************************************************************************)
(* Part IV: src/So_simple.c and src/So_simplificado.c                      *)
(*                                                                         *)
(* The two files run the same three phases on the three semaphores and the *)
(* count of Internationals under m_prior / m_prio; programa says which of  *)
(* the two is running where they differ. The variables of Part II hold the *)
(* records, the semaphores and the count; alertou is r_alertas_starv.      *)
(* sem_wait on an initialised semaphore fails only with EINTR and neither  *)
(* file installs a signal handler, so sem_wait returns 0 and the return -1 *)
(* branches of adquirir in So_simple.c are not taken.                      *)
(***************************************************************************)
ALERTA_STARV == 60
FALHA_STARV == 90

Simples == {"So_simple.c", "So_simplificado.c"}

\* state after the three sem_init of main
S_Init ==
  /\ InitFinal
  /\ r_criados = 0
  /\ r_tipo = [a \in Avioes |-> "DOMESTICO"]
  /\ r_pc = [a \in Avioes |-> "nao_criado"]
  /\ r_fase = [a \in Avioes |-> "pouso"]
  /\ r_held = [a \in Avioes |-> <<>>]
  /\ r_falhou = [a \in Avioes |-> FALSE]
  /\ r_boosted = [a \in Avioes |-> FALSE]
  /\ r_alertas_starv = [a \in Avioes |-> 0]
  /\ r_estado = [a \in Avioes |-> "EST_CRIADO"]
  /\ r_sem = [pista |-> N_PISTAS, portao |-> N_PORTOES, torre |-> N_TORRES]
  /\ aguardando_internacional = 0
  /\ programa \in Simples
  /\ devolveu = [a \in Avioes |-> FALSE]

\* ---- main: calloc, pthread_create; the routine enters fase_pouso
S_Criar(t) ==
  /\ r_criados < MaxAvioes
  /\ LET a == r_criados + 1 IN
       /\ r_tipo' = [r_tipo EXCEPT ![a] = t]
       /\ r_pc' = [r_pc EXCEPT ![a] = "adquirir"]
       /\ r_fase' = [r_fase EXCEPT ![a] = "pouso"]
       /\ r_estado' = [r_estado EXCEPT ![a] = "EST_ATIVO"]
  /\ r_criados' = r_criados + 1
  /\ UNCHANGED <<varsFinal, programa, devolveu, r_held, r_falhou, r_boosted, r_alertas_starv,
                 r_sem, aguardando_internacional>>

\* ---- checa_starvation: alertou, falhou and estado after the call
S_ChecaStarvation(a, espera) ==
  LET alerta == ~r_falhou[a] /\ r_alertas_starv[a] = 0 /\ espera >= ALERTA_STARV
      falha == ~r_falhou[a] /\ espera >= FALHA_STARV
  IN [alertou |-> IF alerta THEN 1 ELSE r_alertas_starv[a],
      falhou |-> r_falhou[a] \/ falha,
      estado |-> IF falha THEN "EST_FALHA" ELSE r_estado[a]]

\* variant: the tower is taken first in decolagem
S_Ordem_torrePrimeiro(f) ==
  IF f = "pouso" THEN <<"pista", "torre">>
  ELSE IF f = "desembarque" THEN <<"portao", "torre">>
  ELSE <<"torre", "portao", "pista">>

\* ---- the sem_wait calls of a phase, in the order of the code
S_Ordem(f) ==
  IF f = "pouso" THEN <<"pista", "torre">>
  ELSE IF f = "desembarque" THEN <<"portao", "torre">>
  ELSE <<"pista", "portao", "torre">>

\* pthread_cond_broadcast: every thread in pthread_cond_wait goes back to the
\* test of its while loop
Broadcast(pcs) ==
  [a \in Avioes |-> IF pcs[a] = "cond_wait" THEN "adquirir" ELSE pcs[a]]

\* ---- adquirir / espera_prioridade: an International registers; a Domestic
\* tests the count and, while it is positive, runs checa_starvation and then
\* returns (falhou: every later phase returns too) or sleeps in
\* pthread_cond_wait
S_Adquirir(a, espera) ==
  /\ r_pc[a] = "adquirir"
  /\ IF r_tipo[a] = "INTERNACIONAL"
     THEN /\ aguardando_internacional' = aguardando_internacional + 1
          /\ r_pc' = [r_pc EXCEPT ![a] = "sem"]
          /\ UNCHANGED rRec
     ELSE IF aguardando_internacional > 0
     THEN LET r == S_ChecaStarvation(a, espera) IN
            /\ r_alertas_starv' = [r_alertas_starv EXCEPT ![a] = r.alertou]
            /\ r_falhou' = [r_falhou EXCEPT ![a] = r.falhou]
            /\ r_estado' = [r_estado EXCEPT ![a] = r.estado]
            /\ r_pc' = [r_pc EXCEPT ![a] = IF r.falhou THEN "fim" ELSE "cond_wait"]
            /\ UNCHANGED <<r_boosted, aguardando_internacional>>
     ELSE /\ r_pc' = [r_pc EXCEPT ![a] = "sem"]
          /\ UNCHANGED <<rRec, aguardando_internacional>>
  /\ UNCHANGED <<varsFinal, programa, devolveu, r_criados, r_tipo, r_fase, r_held, r_sem>>

\* what follows the last sem_wait: the International unregisters; in
\* So_simplificado.c the Domestic calls libera_prioridade too
S_AposSemaforos(a) ==
  IF r_tipo[a] = "INTERNACIONAL" \/ programa = "So_simplificado.c"
  THEN "pos_sem" ELSE "executa"

\* ---- one blocking sem_wait
S_SemWait(a) ==
  /\ r_pc[a] = "sem"
  /\ LET ordem == S_Ordem(r_fase[a])
         x == ordem[Len(r_held[a]) + 1]
     IN /\ r_sem[x] > 0
        /\ r_sem' = [r_sem EXCEPT ![x] = @ - 1]
        /\ r_held' = [r_held EXCEPT ![a] = Append(@, x)]
        /\ r_pc' = [r_pc EXCEPT ![a] =
                      IF Len(r_held[a]) + 1 = Len(ordem)
                      THEN S_AposSemaforos(a) ELSE "sem"]
  /\ UNCHANGED <<varsFinal, programa, devolveu, r_criados, r_tipo, r_fase, rRec,
                 aguardando_internacional>>

\* the count after the International's decrement (guarded in
\* So_simplificado.c)
S_Decrementa(a) ==
  IF r_tipo[a] # "INTERNACIONAL" THEN aguardando_internacional
  ELSE IF programa = "So_simplificado.c" /\ aguardando_internacional = 0 THEN 0
  ELSE aguardando_internacional - 1

\* ---- end of adquirir / libera_prioridade: the decrement and, when the
\* count is 0, the broadcast
S_PosSem(a) ==
  /\ r_pc[a] = "pos_sem"
  /\ aguardando_internacional' = S_Decrementa(a)
  /\ r_pc' = [(IF aguardando_internacional' = 0 THEN Broadcast(r_pc) ELSE r_pc)
                EXCEPT ![a] = "executa"]
  /\ UNCHANGED <<varsFinal, programa, devolveu, r_criados, r_tipo, r_fase, r_held, rRec, r_sem>>

\* ---- the sleep of the phase and conclui_fase / ops++
S_Executa(a) ==
  /\ r_pc[a] = "executa"
  /\ r_pc' = [r_pc EXCEPT ![a] = "libera"]
  /\ UNCHANGED <<varsFinal, programa, devolveu, r_criados, r_tipo, r_fase, r_held, rRec, r_sem,
                 aguardando_internacional>>

\* liberar of So_simple.c ends with a broadcast when the count is 0; the
\* sem_post calls of So_simplificado.c have none
S_AposLiberar(pcs) ==
  IF programa = "So_simple.c" /\ aguardando_internacional = 0
  THEN Broadcast(pcs) ELSE pcs

\* the routine going on: after decolagem estado = EST_FINAL and the thread
\* returns
S_Proxima(a) ==
  IF r_fase[a] = "decolagem"
  THEN /\ r_pc' = [S_AposLiberar(r_pc) EXCEPT ![a] = "fim"]
       /\ r_estado' = [r_estado EXCEPT ![a] = IF r_falhou[a] THEN @ ELSE "EST_FINAL"]
       /\ UNCHANGED r_fase
  ELSE /\ r_pc' = [S_AposLiberar(r_pc) EXCEPT ![a] = "adquirir"]
       /\ r_fase' = [r_fase EXCEPT ![a] = ProximaFase(@)]
       /\ UNCHANGED r_estado

\* ---- the release of the phase: everything for pouso and decolagem, the
\* tower for desembarque
S_Libera(a) ==
  /\ r_pc[a] = "libera"
  /\ IF r_fase[a] = "desembarque"
     THEN /\ r_sem' = [r_sem EXCEPT !["torre"] = @ + 1]
          /\ r_held' = [r_held EXCEPT ![a] = Retira(@, "torre")]
          /\ r_pc' = [S_AposLiberar(r_pc) EXCEPT ![a] = "ocupa"]
          /\ UNCHANGED <<r_fase, r_estado>>
     ELSE /\ r_sem' = Devolve(r_sem, r_held[a])
          /\ r_held' = [r_held EXCEPT ![a] = <<>>]
          /\ S_Proxima(a)
  /\ UNCHANGED <<varsFinal, programa, devolveu, r_criados, r_tipo, r_falhou, r_boosted,
                 r_alertas_starv, aguardando_internacional>>

\* desembarque after sleep(2): the gate
S_LiberaPortao(a) ==
  /\ r_pc[a] = "ocupa"
  /\ r_sem' = Devolve(r_sem, r_held[a])
  /\ r_held' = [r_held EXCEPT ![a] = <<>>]
  /\ S_Proxima(a)
  /\ UNCHANGED <<varsFinal, programa, devolveu, r_criados, r_tipo, r_falhou, r_boosted,
                 r_alertas_starv, aguardando_internacional>>

S_Passo(a) ==
  \/ \E e \in TemposStarvation : S_Adquirir(a, e)
  \/ S_SemWait(a)
  \/ S_PosSem(a)
  \/ S_Executa(a)
  \/ S_Libera(a)
  \/ S_LiberaPortao(a)

S_Next ==
  \/ \E t \in Tipos : S_Criar(t)
  \/ \E a \in Avioes, e \in TemposStarvation : S_Adquirir(a, e)
  \/ \E a \in Avioes : S_SemWait(a)
  \/ \E a \in Avioes : S_PosSem(a)
  \/ \E a \in Avioes : S_Executa(a)
  \/ \E a \in Avioes : S_Libera(a)
  \/ \E a \in Avioes : S_LiberaPortao(a)

SpecSimples == S_Init /\ [][S_Next]_vars

\* every thread that can run is scheduled: a thread that is not blocked in
\* sem_wait or pthread_cond_wait takes its next step
SpecSimplesJusto == SpecSimples /\ \A a \in Avioes : WF_vars(S_Passo(a))

S_Criado(a) == r_pc[a] # "nao_criado"

\* a blocking call of a that cannot return in the current state
S_Bloqueado(a) ==
  \/ r_pc[a] = "cond_wait"
  \/ r_pc[a] = "sem" /\ r_sem[S_Ordem(r_fase[a])[Len(r_held[a]) + 1]] = 0

\* C27: in both files no set of created aircraft is blocked as a whole (as
\* long as one has not returned, one of them is not blocked), a thread only
\* returns with the three phases done (EST_FINAL) or marked failed, and every
\* created aircraft returns
C27_OrdemUnicaSemDeadlock ==
  /\ []((\E a \in Avioes : S_Criado(a) /\ r_pc[a] # "fim") =>
          \E a \in Avioes : S_Criado(a) /\ r_pc[a] # "fim" /\ ~S_Bloqueado(a))
  /\ [](\A a \in Avioes :
          r_pc[a] = "fim" => r_estado[a] = "EST_FINAL" \/ r_falhou[a])
  /\ \A a \in Avioes : S_Criado(a) ~> r_pc[a] = "fim"

\* one aircraft holds the runway for decolagem and is blocked on the gate
\* that the other still occupies after its desembarque
C27_Witness ==
  \E a, b \in Avioes :
    /\ r_pc[a] = "sem" /\ r_fase[a] = "decolagem" /\ r_held[a] = <<"pista">>
    /\ S_Bloqueado(a)
    /\ r_pc[b] = "ocupa" /\ r_held[b] = <<"portao">>

(***************************************************************************)
(* Part V: src/So.c, normal mode (MODO_FORCAR_DEADLOCK = 0)                *)
(*                                                                         *)
(* The records, the semaphores and aguardando_internacional are the        *)
(* variables of Part II; r_held is the list of the units taken in the      *)
(* current phase (acquired_first, got1, got2). aguardando_domestico is     *)
(* written and never read, and rotina_monitor only logs: neither changes   *)
(* what a worker does. The constants have the names and the values of      *)
(* So-final.c.                                                             *)
(***************************************************************************)
So_Init ==
  /\ InitFinal
  /\ r_criados = 0
  /\ r_tipo = [a \in Avioes |-> "DOMESTICO"]
  /\ r_pc = [a \in Avioes |-> "nao_criado"]
  /\ r_fase = [a \in Avioes |-> "pouso"]
  /\ r_held = [a \in Avioes |-> <<>>]
  /\ r_falhou = [a \in Avioes |-> FALSE]
  /\ r_boosted = [a \in Avioes |-> FALSE]
  /\ r_alertas_starv = [a \in Avioes |-> 0]
  /\ r_estado = [a \in Avioes |-> "EST_CRIADO"]
  /\ r_sem = [pista |-> N_PISTAS, portao |-> N_PORTOES, torre |-> N_TORRES]
  /\ aguardando_internacional = 0
  /\ programa = "So.c"
  /\ devolveu = [a \in Avioes |-> FALSE]

\* ---- main: calloc, pthread_create; rotina_aviao enters fase_pouso
So_Criar(t) ==
  /\ r_criados < MaxAvioes
  /\ LET a == r_criados + 1 IN
       /\ r_tipo' = [r_tipo EXCEPT ![a] = t]
       /\ r_pc' = [r_pc EXCEPT ![a] = "registra"]
       /\ r_fase' = [r_fase EXCEPT ![a] = "pouso"]
       /\ r_estado' = [r_estado EXCEPT ![a] = "EST_ATIVO"]
  /\ r_criados' = r_criados + 1
  /\ UNCHANGED <<varsFinal, programa, devolveu, r_held, r_falhou, r_boosted,
                 r_alertas_starv, r_sem, aguardando_internacional>>

\* ---- checa_starvation: the fields of the record after the call
So_ChecaStarvation(a, espera) ==
  LET alerta == ~r_falhou[a] /\ espera >= ALERTA_CRITICO_SECS
                /\ r_alertas_starv[a] = 0
      falha == ~r_falhou[a] /\ espera >= TEMPO_MAXIMO_ESPERA
  IN [alertas |-> IF alerta THEN 1 ELSE r_alertas_starv[a],
      boosted |-> r_boosted[a] \/ alerta,
      falhou |-> r_falhou[a] \/ falha,
      estado |-> IF falha THEN "EST_FALHA" ELSE r_estado[a]]

So_AplicaStarvation(a, espera) ==
  LET r == So_ChecaStarvation(a, espera) IN
    /\ r_falhou' = [r_falhou EXCEPT ![a] = r.falhou]
    /\ r_boosted' = [r_boosted EXCEPT ![a] = r.boosted]
    /\ r_alertas_starv' = [r_alertas_starv EXCEPT ![a] = r.alertas]
    /\ r_estado' = [r_estado EXCEPT ![a] = r.estado]

\* ---- top of the while (1) of a phase: the wait count
So_Registra(a) ==
  /\ r_pc[a] = "registra"
  /\ aguardando_internacional' =
       IF r_tipo[a] = "INTERNACIONAL" THEN aguardando_internacional + 1
       ELSE aguardando_internacional
  /\ r_pc' = [r_pc EXCEPT ![a] = "adquire"]
  /\ UNCHANGED <<varsFinal, programa, devolveu, r_criados, r_tipo, r_fase, r_held,
                 rRec, r_sem>>

\* ---- adquirir_recurso_prioritario: the two yield rules
So_ExisteBoost ==
  \E o \in Avioes :
    o <= r_criados /\ r_boosted[o] /\ r_estado[o] \notin {"EST_FINAL", "EST_FALHA"}

So_Cede(a) ==
  \/ r_tipo[a] = "DOMESTICO" /\ ~r_boosted[a] /\ aguardando_internacional > 0
  \/ r_tipo[a] = "INTERNACIONAL" /\ So_ExisteBoost

\* variant: the rollback gives back the first unit only
So_Rollback_soPrimeiro(a) ==
  IF r_held[a] = <<>> THEN <<>> ELSE <<r_held[a][1]>>

\* the units the phase posts back when adquirir_recurso_prioritario fails
So_Rollback(a) == r_held[a]

\* the call returned -1: rollback, the decrement of the wait count, and
\* return -1 (falhou: rotina_aviao goes to fim) or continue
So_Falha(a) ==
  /\ r_sem' = Devolve(r_sem, So_Rollback(a))
  /\ r_held' = [r_held EXCEPT ![a] = <<>>]
  /\ devolveu' = [devolveu EXCEPT ![a] = @ \/ r_held[a] # <<>>]
  /\ aguardando_internacional' =
       IF r_tipo[a] = "INTERNACIONAL" THEN aguardando_internacional - 1
       ELSE aguardando_internacional
  /\ r_pc' = [r_pc EXCEPT ![a] = IF r_falhou'[a] THEN "fim" ELSE "registra"]

\* the call returned 0: the unit is held; after the last one the wait count
\* is decremented and the phase runs
So_Obtem(a, x) ==
  /\ r_sem' = [r_sem EXCEPT ![x] = @ - 1]
  /\ r_held' = [r_held EXCEPT ![a] = Append(@, x)]
  /\ IF Len(r_held[a]) + 1 = Len(Ordem(r_tipo[a], r_fase[a]))
     THEN /\ aguardando_internacional' =
               IF r_tipo[a] = "INTERNACIONAL" THEN aguardando_internacional - 1
               ELSE aguardando_internacional
          /\ r_pc' = [r_pc EXCEPT ![a] = "executa"]
     ELSE UNCHANGED <<aguardando_internacional, r_pc>>
  /\ UNCHANGED <<rRec, devolveu>>

\* one pass of the while (1) of adquirir_recurso_prioritario on the next
\* resource of the phase: a yield (sleep), or aguardar_sem_timed(sem, 2);
\* when the pass did not get the unit, checa_starvation and the test of
\* timeout_total
So_Adquirir(a, espera, decorrido) ==
  /\ r_pc[a] = "adquire"
  /\ LET x == Ordem(r_tipo[a], r_fase[a])[Len(r_held[a]) + 1] IN
       IF ~So_Cede(a) /\ r_sem[x] > 0
       THEN So_Obtem(a, x)
       ELSE /\ So_AplicaStarvation(a, espera)
            /\ IF r_falhou'[a] \/ decorrido >= TIMEOUT_OPERACAO
               THEN So_Falha(a)
               ELSE UNCHANGED <<r_sem, r_held, devolveu, aguardando_internacional, r_pc>>
  /\ UNCHANGED <<varsFinal, programa, r_criados, r_tipo, r_fase>>

\* ---- muda_estado and executa_fase
So_Executa(a) ==
  /\ r_pc[a] = "executa"
  /\ r_pc' = [r_pc EXCEPT ![a] = "libera"]
  /\ UNCHANGED <<varsFinal, programa, devolveu, r_criados, r_tipo, r_fase, r_held,
                 rRec, r_sem, aguardando_internacional>>

\* the phase returned 0: rotina_aviao goes to fim when falhou is set, else to
\* the next phase; decolagem writes EST_FINALIZADO
So_Proxima(a) ==
  IF r_fase[a] = "decolagem"
  THEN /\ r_pc' = [r_pc EXCEPT ![a] = "fim"]
       /\ r_estado' = [r_estado EXCEPT ![a] = "EST_FINAL"]
       /\ UNCHANGED r_fase
  ELSE /\ r_pc' = [r_pc EXCEPT ![a] = IF r_falhou[a] THEN "fim" ELSE "registra"]
       /\ r_fase' = [r_fase EXCEPT ![a] = IF r_falhou[a] THEN @ ELSE ProximaFase(@)]
       /\ UNCHANGED r_estado

\* ---- the release of the phase: every unit for pouso and decolagem, the
\* tower for desembarque
So_Libera(a) ==
  /\ r_pc[a] = "libera"
  /\ IF r_fase[a] = "desembarque"
     THEN /\ r_sem' = [r_sem EXCEPT !["torre"] = @ + 1]
          /\ r_held' = [r_held EXCEPT ![a] = Retira(@, "torre")]
          /\ r_pc' = [r_pc EXCEPT ![a] = "ocupa"]
          /\ UNCHANGED <<r_fase, r_estado>>
     ELSE /\ r_sem' = Devolve(r_sem, r_held[a])
          /\ r_held' = [r_held EXCEPT ![a] = <<>>]
          /\ So_Proxima(a)
  /\ UNCHANGED <<varsFinal, programa, devolveu, r_criados, r_tipo, r_falhou,
                 r_boosted, r_alertas_starv, aguardando_internacional>>

\* desembarque after sleep(DUR_OCUPACAO_PORTAO_POS_DESEMBARQUE): the gate
So_LiberaPortao(a) ==
  /\ r_pc[a] = "ocupa"
  /\ r_sem' = Devolve(r_sem, r_held[a])
  /\ r_held' = [r_held EXCEPT ![a] = <<>>]
  /\ So_Proxima(a)
  /\ UNCHANGED <<varsFinal, programa, devolveu, r_criados, r_tipo, r_falhou,
                 r_boosted, r_alertas_starv, aguardando_internacional>>

So_Next ==
  \/ \E t \in Tipos : So_Criar(t)
  \/ \E a \in Avioes : So_Registra(a)
  \/ \E a \in Avioes, e \in TemposEspera, d \in TemposReserva : So_Adquirir(a, e, d)
  \/ \E a \in Avioes : So_Executa(a)
  \/ \E a \in Avioes : So_Libera(a)
  \/ \E a \in Avioes : So_LiberaPortao(a)

SpecSo == So_Init /\ [][So_Next]_vars

\* units of class x in the lists of the aircraft
So_Detidas(x) ==
  Cardinality({p \in Avioes \X (1..3) :
                 p[2] <= Len(r_held[p[1]]) /\ r_held[p[1]][p[2]] = x})

So_Capacidade == [pista |-> N_PISTAS, portao |-> N_PORTOES, torre |-> N_TORRES]

\* C28: in normal mode a failed acquisition posts back every unit taken
\* earlier in the phase before the retry or the return, an aircraft outside
\* a phase (retrying, returned) holds nothing, and each semaphore plus the
\* units held is the capacity, so no semaphore exceeds it
C28_RollbackCompleto ==
  /\ [](\A x \in DOMAIN r_sem :
          r_sem[x] + So_Detidas(x) = So_Capacidade[x] /\ r_sem[x] <= So_Capacidade[x])
  /\ [](\A a \in Avioes :
          r_pc[a] \in {"nao_criado", "registra", "fim"} => r_held[a] = <<>>)
  /\ [][\A a \in Avioes :
          (r_pc[a] = "adquire" /\ r_pc'[a] \in {"registra", "fim"}) =>
            /\ r_held'[a] = <<>>
            /\ r_sem' = Devolve(r_sem, r_held[a])]_vars

\* one aircraft returned failure after a rollback that posted units back,
\* another one is retrying after its own rollback
C28_Witness ==
  \E a, b \in Avioes :
    /\ devolveu[a] /\ r_pc[a] = "fim" /\ r_falhou[a]
    /\ devolveu[b] /\ r_pc[b] = "registra" /\ ~r_falhou[b]
(***************************************************************************)
(* Part VI: src/So.c and src/So_restrito.c with MODO_FORCAR_DEADLOCK = 1   *)
(*                                                                         *)
(* main creates two aircraft, the International first; the semaphores are  *)
(* taken with blocking sem_wait in the order of the class. So_restrito.c   *)
(* keeps the priority test, the wait count and the monitor's               *)
(* checa_starvation in this mode; So.c has none of them.                   *)
(***************************************************************************)
ComDeadlock == {"So.c", "So_restrito.c"}

\* the two aircraft of main's loop (idx >= 2 leaves it)
AvioesDeadlock == 2

D_Init ==
  /\ InitFinal
  /\ r_criados = 0
  /\ r_tipo = [a \in Avioes |-> "DOMESTICO"]
  /\ r_pc = [a \in Avioes |-> "nao_criado"]
  /\ r_fase = [a \in Avioes |-> "pouso"]
  /\ r_held = [a \in Avioes |-> <<>>]
  /\ r_falhou = [a \in Avioes |-> FALSE]
  /\ r_boosted = [a \in Avioes |-> FALSE]
  /\ r_alertas_starv = [a \in Avioes |-> 0]
  /\ r_estado = [a \in Avioes |-> "EST_CRIADO"]
  /\ r_sem = [pista |-> N_PISTAS, portao |-> N_PORTOES, torre |-> N_TORRES]
  /\ aguardando_internacional = 0
  /\ programa \in ComDeadlock
  /\ devolveu = [a \in Avioes |-> FALSE]

\* ---- main: a->tipo = (idx==0) ? INTERNACIONAL : DOMESTICO
D_Criar ==
  /\ r_criados < AvioesDeadlock
  /\ LET a == r_criados + 1 IN
       /\ r_tipo' = [r_tipo EXCEPT ![a] =
                       IF r_criados = 0 THEN "INTERNACIONAL" ELSE "DOMESTICO"]
       /\ r_pc' = [r_pc EXCEPT ![a] = "entra"]
       /\ r_fase' = [r_fase EXCEPT ![a] = "pouso"]
       /\ r_estado' = [r_estado EXCEPT ![a] = "EST_ATIVO"]
  /\ r_criados' = r_criados + 1
  /\ UNCHANGED <<varsFinal, programa, devolveu, r_held, r_falhou, r_boosted,
                 r_alertas_starv, r_sem, aguardando_internacional>>

\* ---- the phase up to its first sem_wait. So.c: muda_estado. So_restrito.c:
\* the falhou tests of fase_* and adquirir_fase, the yield of a Domestic that
\* was not boosted (sleep, checa_starvation, continue), the registration of
\* an International
D_Entra(a, espera) ==
  /\ r_pc[a] = "entra"
  /\ IF programa = "So.c"
     THEN /\ r_pc' = [r_pc EXCEPT ![a] = "sem"]
          /\ UNCHANGED <<rRec, aguardando_internacional>>
     ELSE IF r_falhou[a]
     THEN /\ r_pc' = [r_pc EXCEPT ![a] = "fim"]
          /\ UNCHANGED <<rRec, aguardando_internacional>>
     ELSE IF DeveCeder(a)
     THEN /\ AplicaStarvation(a, espera)
          /\ UNCHANGED <<r_pc, aguardando_internacional>>
     ELSE /\ aguardando_internacional' =
               IF r_tipo[a] = "INTERNACIONAL" THEN aguardando_internacional + 1
               ELSE aguardando_internacional
          /\ r_pc' = [r_pc EXCEPT ![a] = "sem"]
          /\ UNCHANGED rRec
  /\ UNCHANGED <<varsFinal, programa, devolveu, r_criados, r_tipo, r_fase, r_held,
                 r_sem>>

\* variant: sem_wait that never blocks
D_Livre_sempre(x) == TRUE

\* sem_wait returns only when the value is positive
D_Livre(x) == r_sem[x] > 0

\* the semaphore of the next sem_wait of the phase
D_Proximo(a) == Ordem(r_tipo[a], r_fase[a])[Len(r_held[a]) + 1]

\* ---- one blocking sem_wait
D_SemWait(a) ==
  /\ r_pc[a] = "sem"
  /\ LET x == D_Proximo(a) IN
       /\ D_Livre(x)
       /\ r_sem' = [r_sem EXCEPT ![x] = @ - 1]
       /\ r_held' = [r_held EXCEPT ![a] = Append(@, x)]
       /\ r_pc' = [r_pc EXCEPT ![a] =
                     IF Len(r_held[a]) + 1 < Len(Ordem(r_tipo[a], r_fase[a]))
                     THEN "sem"
                     ELSE IF programa = "So.c" THEN "executa" ELSE "pos_for"]
  /\ UNCHANGED <<varsFinal, programa, devolveu, r_criados, r_tipo, r_fase, rRec,
                 aguardando_internacional>>

\* ---- So_restrito.c after the for loop: the International unregisters;
\* return -1 when falhou (the phases return), else return 0
D_PosFor(a) ==
  /\ r_pc[a] = "pos_for"
  /\ aguardando_internacional' =
       IF r_tipo[a] = "INTERNACIONAL" THEN aguardando_internacional - 1
       ELSE aguardando_internacional
  /\ r_pc' = [r_pc EXCEPT ![a] = IF r_falhou[a] THEN "fim" ELSE "executa"]
  /\ UNCHANGED <<varsFinal, programa, devolveu, r_criados, r_tipo, r_fase, r_held,
                 rRec, r_sem>>

\* ---- executa_fase; So_restrito.c writes EST_FINAL here after decolagem
D_Executa(a) ==
  /\ r_pc[a] = "executa"
  /\ r_estado' = [r_estado EXCEPT ![a] =
                    IF programa = "So_restrito.c" /\ r_fase[a] = "decolagem"
                    THEN "EST_FINAL" ELSE @]
  /\ r_pc' = [r_pc EXCEPT ![a] = "libera"]
  /\ UNCHANGED <<varsFinal, programa, devolveu, r_criados, r_tipo, r_fase, r_held,
                 r_falhou, r_boosted, r_alertas_starv, r_sem,
                 aguardando_internacional>>

\* the thread going on: the next phase, or the end after decolagem (So.c
\* writes EST_FINALIZADO here)
D_Proxima(a) ==
  IF r_fase[a] = "decolagem"
  THEN /\ r_pc' = [r_pc EXCEPT ![a] = "fim"]
       /\ r_estado' = [r_estado EXCEPT ![a] = "EST_FINAL"]
       /\ UNCHANGED r_fase
  ELSE /\ r_pc' = [r_pc EXCEPT ![a] = "entra"]
       /\ r_fase' = [r_fase EXCEPT ![a] = ProximaFase(@)]
       /\ UNCHANGED r_estado

\* the unit posted before the extra occupation of the gate
D_PrimeiroDesembarque(a) ==
  IF programa = "So.c" THEN "torre" ELSE PrimeiroDesembarque(r_tipo[a])

\* ---- the release of the phase
D_Libera(a) ==
  /\ r_pc[a] = "libera"
  /\ IF r_fase[a] = "desembarque"
     THEN LET x == D_PrimeiroDesembarque(a) IN
            /\ r_sem' = [r_sem EXCEPT ![x] = @ + 1]
            /\ r_held' = [r_held EXCEPT ![a] = Retira(@, x)]
            /\ r_pc' = [r_pc EXCEPT ![a] = "ocupa"]
            /\ UNCHANGED <<r_fase, r_estado>>
     ELSE /\ r_sem' = Devolve(r_sem, r_held[a])
          /\ r_held' = [r_held EXCEPT ![a] = <<>>]
          /\ D_Proxima(a)
  /\ UNCHANGED <<varsFinal, programa, devolveu, r_criados, r_tipo, r_falhou,
                 r_boosted, r_alertas_starv, aguardando_internacional>>

D_LiberaSegundo(a) ==
  /\ r_pc[a] = "ocupa"
  /\ r_sem' = Devolve(r_sem, r_held[a])
  /\ r_held' = [r_held EXCEPT ![a] = <<>>]
  /\ D_Proxima(a)
  /\ UNCHANGED <<varsFinal, programa, devolveu, r_criados, r_tipo, r_falhou,
                 r_boosted, r_alertas_starv, aguardando_internacional>>

\* ---- rotina_monitor of So_restrito.c: checa_starvation of every active
\* record (the monitor of So.c only logs)
D_Monitor(esperas) ==
  /\ programa = "So_restrito.c"
  /\ R_Monitor(esperas)

\* ---- the monitor reported the deadlock and ended; main cancels every
\* thread whose record is not final: the thread ends where it is, its
\* semaphore units are not posted
D_Cancela ==
  /\ r_criados = AvioesDeadlock
  /\ \E a \in Avioes : R_Ativo(a)
  /\ r_pc' = [a \in Avioes |-> IF R_Ativo(a) THEN "fim" ELSE r_pc[a]]
  /\ r_estado' = [a \in Avioes |-> IF R_Ativo(a) THEN "EST_FALHA" ELSE r_estado[a]]
  /\ r_falhou' = [a \in Avioes |->
                    IF R_Ativo(a) /\ programa = "So_restrito.c" THEN TRUE
                    ELSE r_falhou[a]]
  /\ UNCHANGED <<varsFinal, programa, devolveu, r_criados, r_tipo, r_fase, r_held,
                 r_boosted, r_alertas_starv, r_sem, aguardando_internacional>>

D_Passo(a) ==
  \/ \E e \in TemposStarvation : D_Entra(a, e)
  \/ D_SemWait(a)
  \/ D_PosFor(a)
  \/ D_Executa(a)
  \/ D_Libera(a)
  \/ D_LiberaSegundo(a)

D_Next ==
  \/ D_Criar
  \/ \E a \in Avioes, e \in TemposStarvation : D_Entra(a, e)
  \/ \E a \in Avioes : D_SemWait(a)
  \/ \E a \in Avioes : D_PosFor(a)
  \/ \E a \in Avioes : D_Executa(a)
  \/ \E a \in Avioes : D_Libera(a)
  \/ \E a \in Avioes : D_LiberaSegundo(a)
  \/ \E es \in [Avioes -> TemposStarvation] : D_Monitor(es)
  \/ D_Cancela

SpecDeadlock == D_Init /\ [][D_Next]_vars

\* the International holds the runway and is in sem_wait on the tower, the
\* Domestic holds the tower and is in sem_wait on the runway, both in pouso
EsperaCircular ==
  \E i, d \in Avioes :
    /\ r_tipo[i] = "INTERNACIONAL" /\ r_tipo[d] = "DOMESTICO"
    /\ r_fase[i] = "pouso" /\ r_fase[d] = "pouso"
    /\ r_pc[i] = "sem" /\ r_pc[d] = "sem"
    /\ r_held[i] = <<"pista">> /\ r_held[d] = <<"torre">>
    /\ r_sem["pista"] = 0 /\ r_sem["torre"] = 0

\* C29: with one runway and one tower slot the circular wait of the landing
\* is reachable in both files, and it is a trap: in it no step of an
\* aircraft is possible, nothing is posted or taken, and an aircraft leaves
\* its sem_wait only by being cancelled by main
C29_EsperaCircularPrendeOsDois ==
  /\ [](EsperaCircular => \A a \in Avioes : ~ENABLED <<D_Passo(a)>>_vars)
  /\ [][EsperaCircular =>
          /\ r_sem' = r_sem /\ r_held' = r_held
          /\ \A a \in Avioes :
               \/ r_pc'[a] = r_pc[a]
               \/ r_pc'[a] = "fim" /\ r_estado'[a] = "EST_FALHA"]_vars

\* the circular wait in So_restrito.c: the Domestic passed the priority test
\* before the International registered
C29_Witness ==
  EsperaCircular /\ programa = "So_restrito.c" /\ aguardando_internacional = 1

\* the circular wait in So.c
C29_EmSoC == EsperaCircular /\ programa = "So.c"
\* C30: each gate counter of So-final.c stays between 0 and its capacity in
\* every reachable state, rollback and shutdown included
C30_ContadoresDentroDosLimites ==
  /\ 0 <= pistas_disp /\ pistas_disp <= N_PISTAS
  /\ 0 <= portoes_disp /\ portoes_disp <= N_PORTOES
  /\ 0 <= torres_disp /\ torres_disp <= N_TORRES

\* after the shutdown one aircraft went out through the rollback branch
\* (return -1) while the other one still holds a tower reservation: the
\* tower counter is at its lower bound, the runway counter at its upper one
C30_Witness ==
  \E a, b \in Avioes :
    /\ a # b /\ ~simulacao_ativa
    /\ pc[a] = "terminado" /\ ret[a] = "-1"
    /\ pc[b] \in ComReserva
    /\ torres_disp = 0 /\ pistas_disp = N_PISTAS
\* positions of a worker between its registration in aguardar_prioridade and
\* the liberar_prioridade of its phase
PosicoesNaFila ==
  {"ag_wait", "pos_ag", "rs_loop", "rs_chk", "marca_falha", "sw_torre",
   "sw_portao", "sw_pista", "soltar", "ocupa_portao"}

\* while the simulation is active, a worker that is back from
\* aguardar_prioridade with a failed status left it through the exit that
\* took its registration away; every other worker in these positions is
\* still registered
Registrado(a) ==
  /\ pc[a] \in PosicoesNaFila
  /\ ~(pc[a] = "pos_ag" /\ Falhou(status_final[a]))

NaFila(t) == {a \in Avioes : tipo[a] = t /\ Registrado(a)}

\* C31: no contending count is negative and, as long as the simulation has
\* not been shut down, each count is the number of aircraft of its class
\* that registered in aguardar_prioridade and were not unregistered yet
C31_ContagemExata ==
  /\ esperando_internacional >= 0 /\ esperando_domestico >= 0
  /\ simulacao_ativa =>
       /\ esperando_internacional = Cardinality(NaFila("INTERNACIONAL"))
       /\ esperando_domestico = Cardinality(NaFila("DOMESTICO"))

\* the step in which aircraft a gets the unit behind a has_* flag
Obtem(flag, a) == flag'[a] /\ ~flag[a]

\* C32: in each phase the semaphores are taken one at a time in the order
\* tower, gate, runway, for both classes: the tower at the first sem_wait of
\* the phase, a gate or a runway only by an aircraft that holds the tower
\* slot, the runway of decolagem only after the gate, a gate only in
\* desembarque and decolagem, a runway only in pouso and decolagem
C32_TorrePortaoPista ==
  [][\A a \in Avioes :
       /\ Obtem(has_torre, a) =>
            pc[a] = "sw_torre" /\ ~Obtem(has_portao, a) /\ ~Obtem(has_pista, a)
       /\ Obtem(has_portao, a) =>
            /\ pc[a] = "sw_portao" /\ has_torre[a] /\ ~has_pista[a]
            /\ fase[a] \in {"desembarque", "decolagem"}
            /\ ~Obtem(has_pista, a)
       /\ Obtem(has_pista, a) =>
            /\ pc[a] = "sw_pista" /\ has_torre[a]
            /\ fase[a] \in {"pouso", "decolagem"}
            /\ fase[a] = "decolagem" => has_portao[a]]_vars

\* an aircraft holds tower, gate and runway after the three sem_wait of
\* decolagem, next to an aircraft of the other class
C32_Witness ==
  \E a, b \in Avioes :
    /\ tipo[a] # tipo[b]
    /\ fase[a] = "decolagem" /\ pc[a] = "soltar"
    /\ has_torre[a] /\ has_portao[a] /\ has_pista[a]
\* the aircraft whose status becomes st in the step
Reclassificados(st) ==
  {a \in Avioes : status_final'[a] = st /\ status_final[a] # st}

\* deadlock_count once the monitor has added the detectados of the sweep it
\* has made
DeadlocksContados ==
  deadlock_count + (IF mon_pc = "somar" THEN mon_detectados ELSE 0)

\* C33: under every interleaving of the monitor with the workers each
\* reclassification to DEADLOCK (by verificar_starvation or by the sweep of
\* monitor_deadlock) adds exactly one to deadlock_count, each reclassification
\* to STARVATION adds exactly one to acidentes_count, and nothing else changes
\* the two counters, so that at the end they equal the reclassifications made
C33_UmIncrementoPorReclassificacao ==
  [][/\ DeadlocksContados' - DeadlocksContados =
          Cardinality(Reclassificados("DEADLOCK"))
     /\ acidentes_count' - acidentes_count =
          Cardinality(Reclassificados("STARVATION"))]_vars
\* ---- So_refatorado_corrigido.c: the record fields and avioes_mutex
\* the fields of the record read by the sweep of monitor_deadlock
Ref_LidosPeloMonitor == {"status_final", "inicio", "fim"}

\* the writes of a worker made between pthread_mutex_lock(&avioes_mutex) and
\* the unlock: those of status_final (verificar_starvation, the SEM_TIMEOUT
\* branch of the phases, the end of aviao_thread); a->inicio_X = agora() and
\* a->fim_X = agora() are plain stores of the phase functions
Ref_EscritaSobMutex(campo) == campo = "status_final"

\* the fields of the record of aircraft a written by the step
Ref_Escritos(a) ==
  {campo \in Ref_LidosPeloMonitor :
     \/ campo = "status_final" /\ status_final'[a] # status_final[a]
     \/ campo = "inicio" /\ inicio'[a] # inicio[a]
     \/ campo = "fim" /\ fim'[a] # fim[a]}

\* C34: every write by a worker (a step of the aircraft's own thread) to a
\* field of its record that the monitor reads, status_final or one of the
\* inicio_X / fim_X, is made holding avioes_mutex
C34_EscritasSobAvioesMutex ==
  [][\A a \in Avioes :
       (pc'[a] # pc[a] /\ pc[a] # "nao_criado") =>
         \A campo \in Ref_Escritos(a) : Ref_EscritaSobMutex(campo)]_vars
\* C35: in every reachable state, for each class, the aircraft that hold a
\* unit of the class (has_pista / has_portao / has_torre set) are at most the
\* capacity of the class, also after main has posted every semaphore once per
\* created aircraft at shutdown
C35_DetentoresDentroDaCapacidade ==
  /\ Quantos(has_pista) <= N_PISTAS
  /\ Quantos(has_portao) <= N_PORTOES
  /\ Quantos(has_torre) <= N_TORRES

\* after the posts of the shutdown each semaphore plus the units held counts
\* more than the capacity, an aircraft holds its tower and its runway and
\* another aircraft is still running
C35_Witness ==
  /\ m_pc = "juntando"
  /\ pistas + Quantos(has_pista) > N_PISTAS
  /\ torres + Quantos(has_torre) > N_TORRES
  /\ \E a \in Avioes : has_torre[a] /\ has_pista[a] /\ pc[a] = "soltar"
  /\ \E b \in Avioes : pc[b] \notin {"nao_criado", "terminado", "soltar"}
\* the Internationals in the wait loop of aguardar_prioridade, and those past
\* it (reserving, acquiring or executing their phase)
InternacionaisEsperando ==
  {a \in Avioes : tipo[a] = "INTERNACIONAL" /\ pc[a] = "ag_wait"}

InternacionaisAdmitidos ==
  {a \in Avioes : tipo[a] = "INTERNACIONAL" /\ pc[a] \in PosicoesNaFila \ {"ag_wait"}}

\* C36: whenever some International waits in aguardar_prioridade and none is
\* past the priority wait, some waiting International is eventually admitted
\* without a critical alert, a failure or the end of the simulation, however
\* many wait at once. The counts change only by an admitted aircraft leaving
\* or by an aircraft joining the loop, so the admission comes exactly when the
\* loop condition of some waiting International is false as the counts stand
C36_InternacionalAdmitido ==
  (simulacao_ativa /\ InternacionaisEsperando # {} /\ InternacionaisAdmitidos = {}) =>
    \E a \in InternacionaisEsperando :
      \/ ~CondicaoFila(a, esperando_internacional)
      \/ em_alerta_critico[a] \/ Falhou(status_final[a])
(***************************************************************************)
(* Part VII: src/So-final.c, the lock and unlock calls of the three        *)
(* mutexes. Every function that locks returns with what it locked released, *)
(* so a thread outside these functions ("fora") holds no mutex and may      *)
(* enter any of them next.                                                  *)
(***************************************************************************)
Passo(op, m, prox) == [op |-> op, m |-> m, prox |-> prox]

\* what a thread does next at position p, outside the regions of avioes_mutex
\* alone:
\*   fora        outside the functions that lock: the next call
\*   ag_*        aguardar_prioridade: fila_mutex, then avioes_mutex for the
\*               write of ultimo_tempo_espera and inside each checa_falha of
\*               the loop condition and of the if after the loop;
\*               pthread_cond_timedwait gives fila_mutex back and takes it
\*               again
\*   lp_*        liberar_prioridade
\*   rs_*        reservar_recursos: reserva_mutex, avioes_mutex inside each
\*               checa_falha, pthread_cond_timedwait on reserva_mutex
\*   lr_*        liberar_reserva
RoteiroComum(p) ==
  IF p = "fora"
  THEN {Passo("chama", "nenhum", q) :
          q \in {"av_entra", "ag_entra", "lp_entra", "rs_entra", "lr_entra"}}
  ELSE IF p = "av_entra" THEN {Passo("lock", "avioes_mutex", "av_dentro")}
  ELSE IF p = "ag_entra" THEN {Passo("lock", "fila_mutex", "ag_fila")}
  ELSE IF p = "ag_fila" THEN {Passo("lock", "avioes_mutex", "ag_avioes")}
  ELSE IF p = "ag_avioes"
  THEN {Passo("unlock", "avioes_mutex", q) : q \in {"ag_checa", "ag_dorme", "ag_sai"}}
  ELSE IF p = "ag_checa" THEN {Passo("lock", "avioes_mutex", "ag_avioes")}
  ELSE IF p = "ag_dorme" THEN {Passo("unlock", "fila_mutex", "ag_espera")}
  ELSE IF p = "ag_espera"
  THEN {Passo("lock", "fila_mutex", q) : q \in {"ag_checa", "ag_sai"}}
  ELSE IF p = "ag_sai" THEN {Passo("unlock", "fila_mutex", "fora")}
  ELSE IF p = "lp_entra" THEN {Passo("lock", "fila_mutex", "lp_sai")}
  ELSE IF p = "lp_sai" THEN {Passo("unlock", "fila_mutex", "fora")}
  ELSE IF p = "rs_entra"
  THEN {Passo("lock", "reserva_mutex", q) : q \in {"rs_checa", "rs_sai"}}
  ELSE IF p = "rs_checa" THEN {Passo("lock", "avioes_mutex", "rs_avioes")}
  ELSE IF p = "rs_avioes"
  THEN {Passo("unlock", "avioes_mutex", q) : q \in {"rs_dorme", "rs_sai"}}
  ELSE IF p = "rs_dorme" THEN {Passo("unlock", "reserva_mutex", "rs_espera")}
  ELSE IF p = "rs_espera"
  THEN {Passo("lock", "reserva_mutex", q) : q \in {"rs_checa", "rs_sai"}}
  ELSE IF p = "rs_sai" THEN {Passo("unlock", "reserva_mutex", "fora")}
  ELSE IF p = "lr_entra" THEN {Passo("lock", "reserva_mutex", "lr_sai")}
  ELSE {Passo("unlock", "reserva_mutex", "fora")}

\* variant: the regions of avioes_mutex take fila_mutex inside
Roteiro_filaSobAvioes(p) ==
  IF p = "av_dentro" THEN {Passo("lock", "fila_mutex", "av_fila")}
  ELSE IF p = "av_fila" THEN {Passo("unlock", "fila_mutex", "av_sai")}
  ELSE IF p = "av_sai" THEN {Passo("unlock", "avioes_mutex", "fora")}
  ELSE RoteiroComum(p)

\* the whole of it: a region of avioes_mutex alone (verificar_starvation, the
\* record writes of the phases and of aviao_thread, the sweep of the monitor,
\* the creation and the report of main) locks nothing inside
Roteiro(p) ==
  IF p = "av_dentro" THEN {Passo("unlock", "avioes_mutex", "fora")}
  ELSE RoteiroComum(p)

\* the next calls of thread t: monitor_deadlock and main enter the regions of
\* avioes_mutex only
Chamadas(t) ==
  {e \in Roteiro(mutex_pc[t]) :
     (t \in {Monitor, Main} /\ e.op = "chama") => e.prox = "av_entra"}

\* the thread enters one of the functions that lock
M_Chama(t) ==
  /\ \E e \in Chamadas(t) :
       /\ e.op = "chama"
       /\ mutex_pc' = [mutex_pc EXCEPT ![t] = e.prox]
  /\ UNCHANGED <<gMain, gMon, gSem, gDisp, gHas, gFila, gStat, gFase, gLoc, pc,
                 reserva_mutex, r_criados, r_tipo, r_pc, r_fase, r_held, rRec,
                 r_sem, aguardando_internacional, programa, devolveu,
                 mutex_dono>>

\* pthread_mutex_lock returns: the mutex was free
M_Lock(t) ==
  /\ \E e \in Chamadas(t) :
       /\ e.op = "lock" /\ mutex_dono[e.m] = 0
       /\ mutex_dono' = [mutex_dono EXCEPT ![e.m] = t]
       /\ mutex_pc' = [mutex_pc EXCEPT ![t] = e.prox]
  /\ UNCHANGED <<gMain, gMon, gSem, gDisp, gHas, gFila, gStat, gFase, gLoc, pc,
                 reserva_mutex, r_criados, r_tipo, r_pc, r_fase, r_held, rRec,
                 r_sem, aguardando_internacional, programa, devolveu>>

\* pthread_mutex_unlock, or the release inside pthread_cond_timedwait
M_Unlock(t) ==
  /\ \E e \in Chamadas(t) :
       /\ e.op = "unlock"
       /\ mutex_dono' = [mutex_dono EXCEPT ![e.m] = 0]
       /\ mutex_pc' = [mutex_pc EXCEPT ![t] = e.prox]
  /\ UNCHANGED <<gMain, gMon, gSem, gDisp, gHas, gFila, gStat, gFase, gLoc, pc,
                 reserva_mutex, r_criados, r_tipo, r_pc, r_fase, r_held, rRec,
                 r_sem, aguardando_internacional, programa, devolveu>>

M_Next ==
  \/ \E t \in Threads : M_Chama(t)
  \/ \E t \in Threads : M_Lock(t)
  \/ \E t \in Threads : M_Unlock(t)

M_Init == InitFinal /\ InitRestrito

SpecMutex == M_Init /\ [][M_Next]_vars

\* the mutexes thread t holds, and those it is asking for
Detem(t) == {m \in Mutexes : mutex_dono[m] = t}
Pede(t) == {e.m : e \in {c \in Chamadas(t) : c.op = "lock"}}

\* thread t is inside pthread_mutex_lock and every mutex it may be asking for
\* is held
Bloqueada(t) ==
  \A e \in Chamadas(t) : e.op = "lock" /\ mutex_dono[e.m] # 0

\* thread t gets on once the holders it waits for get on, following at most n
\* holders
RECURSIVE Anda(_, _)
Anda(t, n) ==
  \/ ~Bloqueada(t)
  \/ n > 0 /\ \E m \in Pede(t) : Anda(mutex_dono[m], n - 1)

\* C37: the three mutexes are taken in an order with no cycle: a thread that
\* holds avioes_mutex asks for no mutex, a thread that holds fila_mutex or
\* reserva_mutex asks for avioes_mutex only, fila_mutex and reserva_mutex are
\* never held together, each mutex a thread releases is one it holds; so the
\* threads never wait for one another in a circle on the mutexes
C37_OrdemSemCiclo ==
  /\ \A t \in Threads :
       /\ "avioes_mutex" \in Detem(t) => Pede(t) = {}
       /\ Detem(t) # {} => Pede(t) \subseteq {"avioes_mutex"}
       /\ ~({"fila_mutex", "reserva_mutex"} \subseteq Detem(t))
       /\ \A e \in Chamadas(t) : e.op = "unlock" => e.m \in Detem(t)
  /\ \A t \in Threads : Anda(t, MaxAvioes + 2)

\* one worker holds fila_mutex and avioes_mutex, the other one holds
\* reserva_mutex and waits for avioes_mutex, and the monitor waits for it too
C37_Witness ==
  \E t, u \in Avioes :
    /\ Detem(t) = {"fila_mutex", "avioes_mutex"}
    /\ Detem(u) = {"reserva_mutex"} /\ Bloqueada(u)
    /\ Bloqueada(Monitor)
\* some active aircraft other than a has the aging boost
So_OutroComBoost(a) ==
  \E o \in Avioes \ {a} :
    o <= r_criados /\ r_boosted[o] /\ r_estado[o] \notin {"EST_FINAL", "EST_FALHA"}

\* C38: in So.c a boosted aircraft is never held by a yield rule on account of
\* its own boost: inside adquirir_recurso_prioritario a boosted aircraft,
\* Domestic or International, goes on to the semaphore attempt whenever no
\* other active aircraft is boosted
C38_BoostNaoBloqueia ==
  \A a \in Avioes :
    (programa = "So.c" /\ r_pc[a] = "adquire" /\ r_boosted[a] /\ ~So_OutroComBoost(a))
      => ~So_Cede(a)
\* C39: in So_restrito.c in normal mode, whenever adquirir_fase returns -1
\* (the aircraft was marked failed by its own checa_starvation or by the
\* monitor, also while it held some units of the phase) the aircraft holds no
\* semaphore unit: what it took in the call was posted back
C39_FalhaSemUnidades ==
  [][\A a \in Avioes :
       (r_pc[a] \in {"adquirir", "tentando", "pos_for"} /\ r_pc'[a] = "fim") =>
         r_held'[a] = <<>>]_vars
\* ---- So_restrito.c: the two totals of the report. checa_starvation makes
\* total_falha++ in the step that writes falhou = 1, and falhou is never
\* cleared; executa_fase makes total_sucesso++ in the step that writes
\* EST_FINAL, which checa_starvation leaves alone from then on
total_falha == Cardinality({a \in Avioes : r_falhou[a]})
total_sucesso == Cardinality({a \in Avioes : r_estado[a] = "EST_FINAL"})

\* C40: under every interleaving of the monitor with the workers of
\* So_restrito.c an aircraft is counted at most once and in at most one of
\* total_sucesso and total_falha: no aircraft is both failed (falhou = 1,
\* counted in total_falha) and finished (EST_FINAL, counted in
\* total_sucesso), and total_sucesso + total_falha is at most total_criados
C40_ContadoUmaVez ==
  /\ \A a \in Avioes : ~(r_falhou[a] /\ r_estado[a] = "EST_FINAL")
  /\ total_sucesso + total_falha <= r_criados
====
